---------------------------- MODULE Spec2Model ----------------------------
(***************************************************************************)
(* A model of the indexing and hybrid-retrieval core of showdoc-ai-service *)
(* (app/utils/chunker.py, app/services/indexer.py,                         *)
(* app/services/retriever.py, worker/tasks.py).                            *)
(*                                                                         *)
(* Text is a sequence of one-character strings, so that the string         *)
(* operations of the code (lower, strip, split, in, count, re.match) are    *)
(* computed rather than assumed.  A relevance score is an integer number    *)
(* of thousandths (1000 stands for the float 1.0).                          *)
(***************************************************************************)
EXTENDS Integers, Sequences, FiniteSets, TLC

(***************************************************************************)
(* Text primitives (the Python str methods and regular expressions used).  *)
(***************************************************************************)
NL == "\n"

WhiteSpace == {" ", NL, "\t"}

\* Characters that the regular expression class \w does not match.
\* A Chinese character is written as one token in capitals ("JIE" is the
\* character jie of jie-kou-di-zhi, "interface address"); "COLON" is the
\* full-width colon.
Punctuation == {"#", "*", "/", ":", "?", ".", "-", "COLON"}

Digits == {"0", "1", "2", "3", "4", "5", "6", "7", "8", "9"}

IsWordChar(c) == c \notin WhiteSpace /\ c \notin Punctuation

UpperLetters == <<"A", "D", "E", "G", "I", "L", "O", "P", "S", "T", "U">>

LowerLetters == <<"a", "d", "e", "g", "i", "l", "o", "p", "s", "t", "u">>

LowerChar(c) ==
    IF \E i \in 1..Len(UpperLetters) : UpperLetters[i] = c
    THEN LowerLetters[CHOOSE i \in 1..Len(UpperLetters) : UpperLetters[i] = c]
    ELSE c

\* str.lower()
Lower(s) == [i \in 1..Len(s) |-> LowerChar(s[i])]

\* t occurs in s starting at position i
MatchAt(s, t, i) ==
    /\ i >= 1
    /\ i + Len(t) - 1 <= Len(s)
    /\ SubSeq(s, i, i + Len(t) - 1) = t

\* Python's `t in s` for strings (the empty string is in every string)
Contains(s, t) == \E i \in 1..(Len(s) + 1) : MatchAt(s, t, i)

\* str.startswith
StartsWith(s, t) == MatchAt(s, t, 1)

RECURSIVE CountFrom(_, _, _)
CountFrom(s, t, i) ==
    IF i + Len(t) - 1 > Len(s) THEN 0
    ELSE IF MatchAt(s, t, i) THEN 1 + CountFrom(s, t, i + Len(t))
    ELSE CountFrom(s, t, i + 1)

\* str.count(t): the number of non-overlapping occurrences of a non-empty t
Count(s, t) == CountFrom(s, t, 1)

RECURSIVE LStrip(_)
LStrip(s) == IF s # <<>> /\ Head(s) \in WhiteSpace THEN LStrip(Tail(s)) ELSE s

RECURSIVE RStrip(_)
RStrip(s) ==
    IF s # <<>> /\ s[Len(s)] \in WhiteSpace
    THEN RStrip(SubSeq(s, 1, Len(s) - 1))
    ELSE s

\* str.strip()
Strip(s) == RStrip(LStrip(s))

\* the pieces of s from position i on: up to the leftmost occurrence of sep
\* at or after i, and so on after that occurrence
RECURSIVE SplitFrom(_, _, _)
SplitFrom(s, sep, i) ==
    LET found == {j \in i..Len(s) : MatchAt(s, sep, j)}
        first == CHOOSE j \in found : \A k \in found : j <= k
    IN  IF found = {} THEN <<SubSeq(s, i, Len(s))>>
        ELSE <<SubSeq(s, i, first - 1)>> \o SplitFrom(s, sep, first + Len(sep))

\* str.split(sep) for a non-empty separator
SplitOn(s, sep) == SplitFrom(s, sep, 1)

RECURSIVE SplitWsFrom(_, _, _)
SplitWsFrom(s, i, cur) ==
    IF i > Len(s) THEN (IF cur = <<>> THEN <<>> ELSE <<cur>>)
    ELSE IF s[i] \in WhiteSpace
         THEN (IF cur = <<>> THEN <<>> ELSE <<cur>>) \o SplitWsFrom(s, i + 1, <<>>)
         ELSE SplitWsFrom(s, i + 1, Append(cur, s[i]))

\* str.split() without argument: the maximal runs of non-whitespace
SplitWs(s) == SplitWsFrom(s, 1, <<>>)

RECURSIVE Join(_, _)
\* sep.join(parts)
Join(parts, sep) ==
    IF parts = <<>> THEN <<>>
    ELSE IF Len(parts) = 1 THEN parts[1]
    ELSE parts[1] \o sep \o Join(Tail(parts), sep)

RECURSIVE FindAllFrom(_, _, _)
FindAllFrom(s, i, cur) ==
    IF i > Len(s) THEN (IF cur = <<>> THEN <<>> ELSE <<cur>>)
    ELSE IF IsWordChar(s[i]) THEN FindAllFrom(s, i + 1, Append(cur, s[i]))
    ELSE (IF cur = <<>> THEN <<>> ELSE <<cur>>)
         \o (IF s[i] \in WhiteSpace THEN <<>> ELSE << <<s[i]>> >>)
         \o FindAllFrom(s, i + 1, <<>>)

\* re.findall(r'\w+|[^\w\s]', s): the runs of word characters and every
\* single character that is neither a word character nor whitespace
FindAllTokens(s) == FindAllFrom(s, 1, <<>>)

\* the elements of a sequence that satisfy a test, in order
RECURSIVE FilterLonger(_, _)
FilterLonger(seq, n) ==
    IF seq = <<>> THEN <<>>
    ELSE (IF Len(Head(seq)) > n THEN <<Head(seq)>> ELSE <<>>)
         \o FilterLonger(Tail(seq), n)

\* seq[:n]
Take(seq, n) == SubSeq(seq, 1, IF n < Len(seq) THEN n ELSE Len(seq))

Min(a, b) == IF a <= b THEN a ELSE b

(***************************************************************************)
(* MarkdownChunker (app/utils/chunker.py).                                 *)
(***************************************************************************)
max_chunk_size == 1000

chunk_overlap == 100

EmptyDict == <<>>

MkChunk(content, metadata) == [content |-> content, metadata |-> metadata]

\* re.match(r'^(#{1,6})\s+(.+)$', line) on a line without newline
IsHeaderLine(line) ==
    \E n \in 1..6 :
        /\ Len(line) >= n + 2
        /\ \A j \in 1..n : line[j] = "#"
        /\ line[n + 1] \in WhiteSpace

\* re.match(r'^#\s+(.+)$', line)
IsApiHeaderLine(line) ==
    /\ Len(line) >= 3
    /\ line[1] = "#"
    /\ line[2] \in WhiteSpace

RECURSIVE SplitHeadersLoop(_, _, _, _)
SplitHeadersLoop(lines, i, sections, current_section) ==
    LET saved == IF current_section # <<>>
                 THEN Append(sections, Join(current_section, <<NL>>))
                 ELSE sections
    IN  IF i > Len(lines) THEN saved
        ELSE IF IsHeaderLine(lines[i])
             THEN SplitHeadersLoop(lines, i + 1, saved, <<lines[i]>>)
             ELSE SplitHeadersLoop(lines, i + 1, sections,
                                   Append(current_section, lines[i]))

split_by_headers(content) ==
    IF content = <<>> THEN << <<>> >>
    ELSE LET sections == SplitHeadersLoop(SplitOn(content, <<NL>>), 1, <<>>, <<>>)
         IN  IF sections = <<>> THEN <<content>> ELSE sections

RECURSIVE SplitLargeLoop(_, _, _, _, _)
SplitLargeLoop(paragraphs, i, chunks, current_chunk, current_size) ==
    IF i > Len(paragraphs)
    THEN IF current_chunk # <<>>
         THEN Append(chunks, MkChunk(Join(current_chunk, <<NL, NL>>), EmptyDict))
         ELSE chunks
    ELSE LET para == paragraphs[i]
             para_size == Len(para)
             flush == current_size + para_size > max_chunk_size
                      /\ current_chunk # <<>>
             overlap_text == current_chunk[Len(current_chunk)]
             chunks1 == IF flush
                        THEN Append(chunks,
                                    MkChunk(Join(current_chunk, <<NL, NL>>), EmptyDict))
                        ELSE chunks
             chunk1 == IF ~flush THEN current_chunk
                       ELSE IF chunk_overlap > 0
                            THEN (IF Len(overlap_text) < chunk_overlap
                                  THEN <<overlap_text>> ELSE <<>>)
                            ELSE <<>>
             size1 == IF ~flush THEN current_size
                      ELSE IF chunk_overlap > 0 THEN Len(overlap_text) ELSE 0
         IN  SplitLargeLoop(paragraphs, i + 1, chunks1,
                            Append(chunk1, para), size1 + para_size + 2)

split_large_section(section) ==
    SplitLargeLoop(SplitOn(section, <<NL, NL>>), 1, <<>>, <<>>, 0)

RECURSIVE RegularLoop(_, _)
RegularLoop(sections, i) ==
    IF i > Len(sections) THEN <<>>
    ELSE (IF Len(sections[i]) > max_chunk_size
          THEN split_large_section(sections[i])
          ELSE <<MkChunk(sections[i], EmptyDict)>>)
         \o RegularLoop(sections, i + 1)

chunk_regular_document(markdown_content) ==
    IF markdown_content = <<>> THEN <<MkChunk(<<>>, EmptyDict)>>
    ELSE RegularLoop(split_by_headers(markdown_content), 1)

\* the words the chunker looks for
JieKouDiZhi == <<"JIE", "KOU", "DI", "ZHI">>

QingQiuCanShu == <<"QING", "QIU", "CAN", "SHU">>

XiangYing == <<"XIANG", "YING">>

api_keywords ==
    << JieKouDiZhi,
       <<"*", "*">> \o JieKouDiZhi,
       QingQiuCanShu,
       XiangYing \o <<"SHI", "LI">>,
       XiangYing \o <<"ZI", "DUAN">>,
       <<"a", "p", "i">>,
       <<"e", "n", "d", "p", "o", "i", "n", "t">>,
       <<"m", "e", "t", "h", "o", "d">>,
       <<"h", "e", "a", "d", "e", "r", "s">>,
       <<"q", "u", "e", "r", "y">>,
       <<"b", "o", "d", "y">> >>

http_methods ==
    << <<"g", "e", "t">>,
       <<"p", "o", "s", "t">>,
       <<"p", "u", "t">>,
       <<"d", "e", "l", "e", "t", "e">>,
       <<"p", "a", "t", "c", "h">>,
       <<"h", "e", "a", "d">>,
       <<"o", "p", "t", "i", "o", "n", "s">> >>

\* re.search(r'/v\d+/', s)
HasVersionPath(s) ==
    \E i \in 1..Len(s) : \E j \in (i + 3)..Len(s) :
        /\ s[i] = "/"
        /\ s[i + 1] = "v"
        /\ \A k \in (i + 2)..(j - 1) : s[k] \in Digits
        /\ s[j] = "/"

\* any(re.search(pattern, content_lower) for pattern in api_path_patterns):
\* the two patterns that start with https?:// end with one of the first two,
\* so some pattern is found exactly when '/api/' or '/v\d+/' is found
path_match(content_lower) ==
    \/ Contains(content_lower, <<"/", "a", "p", "i", "/">>)
    \/ HasVersionPath(content_lower)

detect_api_document(markdown_content, page_type) ==
    IF page_type = "api" THEN TRUE
    ELSE IF markdown_content = <<>> THEN FALSE
    ELSE
      LET content_lower == Lower(markdown_content)
          keyword_count ==
              Cardinality({i \in 1..Len(api_keywords) :
                              Contains(content_lower, api_keywords[i])})
          method_count ==
              Cardinality({i \in 1..Len(http_methods) :
                              \/ Contains(content_lower,
                                          <<" ">> \o http_methods[i] \o <<" ">>)
                              \/ StartsWith(content_lower, http_methods[i])})
      IN  \/ Contains(markdown_content, JieKouDiZhi) /\ method_count > 0
          \/ keyword_count >= 2 /\ method_count > 0
          \/ path_match(content_lower) /\ method_count > 0
          \/ /\ \/ Contains(markdown_content, QingQiuCanShu)
                \/ Contains(content_lower, <<"r", "e", "q", "u", "e", "s", "t">>)
             /\ \/ Contains(markdown_content, XiangYing)
                \/ Contains(content_lower, <<"r", "e", "s", "p", "o", "n", "s", "e">>)

ApiMeta == "chunk_type" :> "api"

ApiCompleteMeta == ("chunk_type" :> "api") @@ ("api_complete" :> TRUE)

ApiSectionMeta(section_type) ==
    ("chunk_type" :> "api") @@ ("api_section" :> section_type)
        @@ ("api_complete" :> FALSE)

\* re.match(r'^##\s+' + word, line)
IsSectionLine(line, word) ==
    /\ StartsWith(line, <<"#", "#">>)
    /\ \E n \in 3..Len(line) :
          /\ \A j \in 3..n : line[j] \in WhiteSpace
          /\ MatchAt(line, word, n + 1)

RECURSIVE ApiSectionsLoop(_, _, _, _, _)
ApiSectionsLoop(lines, i, sections, current_section, current_section_type) ==
    LET saved == IF current_section # <<>>
                 THEN Append(sections, <<Join(current_section, <<NL>>),
                                         current_section_type>>)
                 ELSE sections
    IN  IF i > Len(lines) THEN saved
        ELSE IF IsSectionLine(lines[i], QingQiuCanShu)
             THEN ApiSectionsLoop(lines, i + 1, saved, <<lines[i]>>, "request")
        ELSE IF IsSectionLine(lines[i], XiangYing)
             THEN ApiSectionsLoop(lines, i + 1, saved, <<lines[i]>>, "response")
        ELSE ApiSectionsLoop(lines, i + 1, sections,
                             Append(current_section, lines[i]),
                             current_section_type)

RECURSIVE ApiSectionChunks(_, _)
ApiSectionChunks(sections, i) ==
    IF i > Len(sections) THEN <<>>
    ELSE LET section_content == sections[i][1]
             section_type == sections[i][2]
             sub_chunks == split_large_section(section_content)
         IN  (IF Len(section_content) <= max_chunk_size
              THEN <<MkChunk(section_content, ApiSectionMeta(section_type))>>
              ELSE [k \in 1..Len(sub_chunks) |->
                       MkChunk(sub_chunks[k].content,
                               ApiSectionMeta(section_type))])
             \o ApiSectionChunks(sections, i + 1)

split_api_into_chunks(api_content) ==
    IF Len(api_content) <= max_chunk_size
    THEN <<MkChunk(api_content, ApiCompleteMeta)>>
    ELSE ApiSectionChunks(
             ApiSectionsLoop(SplitOn(api_content, <<NL>>), 1, <<>>, <<>>, "basic"),
             1)

RECURSIVE ApiLoop(_, _, _, _, _, _)
ApiLoop(lines, i, chunks, current_api, current_section, in_api) ==
    IF i > Len(lines)
    THEN [chunks |-> chunks, current_api |-> current_api,
          current_section |-> current_section]
    ELSE
      LET line == lines[i]
          is_api_header == IsApiHeaderLine(line)
          lookahead == Join(SubSeq(lines, i, Min(i + 9, Len(lines))), <<NL>>)
          has_api_info == is_api_header /\ Contains(lookahead, JieKouDiZhi)
          flushed == IF current_api # <<>>
                     THEN chunks \o split_api_into_chunks(Join(current_api, <<NL>>))
                     ELSE chunks
      IN  IF is_api_header /\ has_api_info
          THEN ApiLoop(lines, i + 1, flushed, <<line>>, current_section, TRUE)
          ELSE IF in_api
               THEN (IF IsApiHeaderLine(line)
                     THEN ApiLoop(lines, i + 1, flushed, <<line>>,
                                  current_section, in_api)
                     ELSE ApiLoop(lines, i + 1, chunks, Append(current_api, line),
                                  current_section, in_api))
               ELSE ApiLoop(lines, i + 1, chunks, current_api,
                            Append(current_section, line), in_api)

chunk_api_document(markdown_content) ==
    IF markdown_content = <<>> THEN <<MkChunk(<<>>, ApiMeta)>>
    ELSE
      LET r == ApiLoop(SplitOn(markdown_content, <<NL>>), 1, <<>>, <<>>, <<>>, FALSE)
          chunks == IF r.current_api # <<>>
                    THEN r.chunks \o split_api_into_chunks(Join(r.current_api, <<NL>>))
                    ELSE r.chunks
      IN  IF r.current_api = <<>> /\ r.current_section # <<>>
          THEN chunk_regular_document(markdown_content)
          ELSE IF chunks # <<>> THEN chunks
          ELSE <<MkChunk(markdown_content, ApiMeta)>>

\* MarkdownChunker.chunk
chunk(markdown_content, page_type) ==
    IF detect_api_document(markdown_content, page_type)
    THEN chunk_api_document(markdown_content)
    ELSE chunk_regular_document(markdown_content)

(***************************************************************************)
(* The embedding capability and the vector store.                          *)
(*                                                                         *)
(* An embedding is a unit vector of dimension 2 with coordinates in tenths; *)
(* the store's cosine score of two vectors is their dot product, here in    *)
(* thousandths.  Which vector a text gets is the business of the embedding  *)
(* model, which is outside the repository: the state variable `embedding`  *)
(* selects one of a few deterministic models.                               *)
(***************************************************************************)
UnitVectors == << <<10, 0>>, <<8, 6>>, <<6, -8>>, <<-10, 0>> >>

EmbeddingModels == {0, 1}

EmbedWith(model, text) == UnitVectors[((Len(text) + model) % Len(UnitVectors)) + 1]

\* Distance.COSINE score of a stored vector against the query vector
Cosine(u, v) == (u[1] * v[1] + u[2] * v[2]) * 10

DigitChars == <<"0", "1", "2", "3", "4", "5", "6", "7", "8", "9">>

RECURSIVE DecStr(_)
\* str(n) for a natural number n
DecStr(n) ==
    IF n < 10 THEN <<DigitChars[n + 1]>>
    ELSE DecStr(n \div 10) \o <<DigitChars[(n % 10) + 1]>>

\* settings.qdrant_collection_prefix
collection_prefix ==
    <<"s", "h", "o", "w", "d", "o", "c", "_", "i", "t", "e", "m", "_">>

\* a collection name that leaves out the project id
get_collection_name_shared(item_id) == collection_prefix

get_collection_name(item_id) == collection_prefix \o DecStr(item_id)

get_access_time_key(item_id) ==
    <<"a", "i", "_", "i", "n", "d", "e", "x", "_", "a", "c", "c", "e", "s", "s",
      "_", "t", "i", "m", "e", ":">> \o DecStr(item_id)

get_indexing_task_key(item_id) ==
    <<"a", "i", "_", "i", "n", "d", "e", "x", "i", "n", "g", "_", "t", "a", "s",
      "k", ":">> \o DecStr(item_id)

access_time_ttl == 365 * 24 * 60 * 60

task_marker_ttl == 2 * 60 * 60

batch_size == 50

\* the most failed pages that rebuild_index_task lists in its answer
max_error_pages == 20

\* the permutations of a sequence
RECURSIVE PermsOf(_)
PermsOf(seq) ==
    IF seq = <<>> THEN {<<>>}
    ELSE UNION {{<<seq[i]>> \o p :
                    p \in PermsOf(SubSeq(seq, 1, i - 1) \o SubSeq(seq, i + 1, Len(seq)))} :
                i \in 1..Len(seq)}

RECURSIVE Interleavings(_, _)
Interleavings(a, b) ==
    IF a = <<>> THEN {b}
    ELSE IF b = <<>> THEN {a}
    ELSE {<<Head(a)>> \o t : t \in Interleavings(Tail(a), b)}
         \cup {<<Head(b)>> \o t : t \in Interleavings(a, Tail(b))}

\* client.upsert of points with fresh uuid4 ids.  A collection is kept as
\* the sequence of its points in the order of their ids (the order in which
\* scroll returns them); a random id puts a new point anywhere in it.
UpsertOutcomes(points, new) ==
    UNION {Interleavings(points, p) : p \in PermsOf(new)}

RECURSIVE SelectSeq2(_, _)
\* the points whose payload field page_id differs from page_id, in order
SelectSeq2(points, page_id) ==
    IF points = <<>> THEN <<>>
    ELSE (IF Head(points).payload.page_id = page_id THEN <<>> ELSE <<Head(points)>>)
         \o SelectSeq2(Tail(points), page_id)

\* a delete that forgets its filter
DeleteEveryPage(points, page_id) == <<>>

\* client.delete with Filter(must=[page_id == page_id])
DeleteByPage(points, page_id) == SelectSeq2(points, page_id)

\* the payload built for chunk number idx of the batch that starts at
\* batch_start (indexer.py lines 121-130); **metadata_dict comes last, so a
\* key of the caller's metadata replaces the field of the same name
PointPayload(item_id, page, chunks, batch_start, idx) ==
    page.metadata @@
    [item_id        |-> item_id,
     page_id        |-> page.page_id,
     page_title     |-> page.page_title,
     page_type      |-> page.page_type,
     chunk_id       |-> batch_start + idx,
     chunk_content  |-> chunks[batch_start + idx + 1].content,
     chunk_metadata |-> chunks[batch_start + idx + 1].metadata]

\* the points of one batch (idx counts from 0 as enumerate does)
BatchPoints(model, item_id, page, chunks, batch_start) ==
    [k \in 1..(Min(batch_start + batch_size, Len(chunks)) - batch_start) |->
        [vector  |-> EmbedWith(model, chunks[batch_start + k].content),
         payload |-> PointPayload(item_id, page, chunks, batch_start, k - 1)]]

\* `not page_content or not page_content.strip()`
IsBlank(page_content) == page_content = <<>> \/ Strip(page_content) = <<>>

(***************************************************************************)
(* Inputs.                                                                 *)
(***************************************************************************)
Items == {1, 2}

TitleZz == <<"z", "z">>

TitleApi == <<"a", "p", "i">>

TitleMyApi == <<"M", "y", " ", "A", "P", "I">>

DocTwo == <<"#", " ", "a", "b", NL, "#", " ", "a", "p", "i", " ", "x", "y">>

DocOne == <<"a", "p", "i", " ", "x">>

DocBlank == <<" ", " ", " ">>

MkPage(page_id, page_title, page_content, metadata) ==
    [page_id |-> page_id, page_title |-> page_title,
     page_content |-> page_content, page_type |-> "regular",
     metadata |-> metadata]

PageTwo == MkPage(10, TitleZz, DocTwo, EmptyDict)

PageBlank == MkPage(10, TitleZz, DocBlank, EmptyDict)

PageMeta == MkPage(10, TitleZz, DocTwo, "chunk_id" :> 0)

PageApi == MkPage(11, TitleApi, DocOne, EmptyDict)

PageMyApi == MkPage(12, TitleMyApi, DocOne, EmptyDict)

PageOne == MkPage(10, TitleZz, DocOne, EmptyDict)

\* n times the character c
Rep(c, n) == [i \in 1..n |-> c]

\* a blank first line, then a header
DocLead == <<NL, "#", " ", "a">>

\* the line that gives the address of an interface
MarkerLine ==
    <<"*", "*">> \o JieKouDiZhi \o <<"FULLCOLON", "*", "*", " ", "P", "O", "S", "T", " ", "/", "a", "p", "i", "/", "l", "o", "g", "i", "n">>

\* the address line and a section of request parameters, without any
\* level-1 header
DocMarker ==
    MarkerLine \o <<NL, "#", "#", " ">> \o QingQiuCanShu \o <<NL, "n", "a", "m", "e">>

\* the same under a level-1 header
DocLogin == <<"#", " ", "l", "o", "g", "i", "n", NL>> \o DocMarker

\* the same with a line of text before the header
DocIntro == <<"i", "n", "t", "r", "o", NL>> \o DocLogin

\* a short paragraph, then one that fills most of a chunk
DocCarry == Rep("a", 99) \o <<NL, NL>> \o Rep("b", 950)

\* one paragraph longer than a chunk
DocOneLong == Rep("c", 1001)

\* two paragraphs that do not fit into one chunk
DocHalves == Rep("a", 600) \o <<NL, NL>> \o Rep("b", 600)

ChunkDocs ==
    {DocTwo, DocOne, DocLead, DocMarker, DocLogin, DocIntro, DocCarry, DocOneLong, DocHalves}

ChunkPages == {MkPage(10, TitleZz, doc, EmptyDict) : doc \in ChunkDocs}

PageInputs == {PageTwo, PageBlank, PageMeta, PageApi, PageMyApi} \cup ChunkPages

\* the chunks of every input page, computed once
ChunksOf == [page \in PageInputs |-> chunk(page.page_content, page.page_type)]

(***************************************************************************)
(* State.                                                                  *)
(***************************************************************************)
VARIABLES
    collections,  \* the vector store: collection name -> sequence of points
    redis,        \* the key-value store: key -> [value, expire_at]
    now,          \* time.time()
    embedding,    \* the embedding model in use
    wpc,          \* per worker: where its task stands
    wtask,        \* per worker: the task it runs (kind, item_id, pages)
    wpage,        \* per worker: index of the page being indexed (0: none yet)
    wbatch,       \* per worker: batch_start of upsert_document's loop
    wres,         \* per worker: the counters of rebuild_index_task
    hist,         \* per worker: the points its page had when the same call was repeated
    wstart,       \* per worker: the time at which its task started
    rpc,          \* the retrieve call: where it stands
    rreq,         \* the retrieve call: its arguments
    rvec,         \* the retrieve call: query_vector
    rhits,        \* the retrieve call: search_results
    rkw,          \* the retrieve call: keyword_results
    rres,         \* the retrieve call: the list it returned
    apc,          \* the request being served: where it stands
    areq,         \* the request being served: its arguments
    alist,        \* the request being served: the collections it goes through
    aidx,         \* the request being served: index in alist
    ares,         \* the request being served: what it has computed so far
    service,         \* the process that holds the local embedding model
    model_instance,  \* the model handle (self.model, _model_instance)
    model_loaded,    \* _model_loaded
    model_lock,      \* the thread inside `with _lock`, 0 when the lock is free
    last_used_time,  \* _last_used_time
    tpc,             \* per thread of the process: where its call stands
    tret,            \* per thread: where its call goes on after loading
    loads,           \* models constructed since the handle was last None
    kpc,             \* the keyword search: where it stands
    kreq,            \* the keyword search: its arguments
    kcount,          \* the keyword search: scroll_page_count
    kresults,        \* the keyword search: results
    kret,            \* the keyword search: what it returned
    krequests,       \* the keyword search: the scroll requests it has issued
    klast            \* the keyword search: the last answer of the store

vars == <<collections, redis, now, embedding, wpc, wtask, wpage, wbatch, wres,
          hist, wstart, rpc, rreq, rvec, rhits, rkw, rres, apc, areq, alist,
          aidx, ares, service, model_instance, model_loaded, model_lock,
          last_used_time, tpc, tret, loads, kpc, kreq, kcount, kresults,
          kret, krequests, klast>>

wvars == <<wpc, wtask, wpage, wbatch, wres, hist, wstart>>

rvars == <<rpc, rreq, rvec, rhits, rkw, rres>>

avars == <<apc, areq, alist, aidx, ares>>

mvars == <<service, model_instance, model_loaded, model_lock, last_used_time,
           tpc, tret, loads>>

kvars == <<kpc, kreq, kcount, kresults, kret, krequests, klast>>

\* the threads of the process that holds the model
Threads == {1, 2}

\* None
None == -1

Workers == {1, 2}

\* the most points a collection is let to grow to
MaxPoints == 3

NoTask == [kind |-> "none", item_id |-> 0, pages |-> <<>>]

NoCounts == [success |-> 0, skipped |-> 0, error |-> 0, error_pages |-> <<>>]

\* `hist` has no count to compare with
NoHist == {}

NoReq == [query |-> <<>>, item_id |-> 0, top_k |-> 0]

\* no request is being served
NoRequest == [op |-> "none", item_id |-> 0, ids |-> {}, days |-> 0, start |-> 0]

NoAnswer == [status |-> "none"]

\* the outcomes of a call to the vector store or to the key-value store
CallOutcomes == {"ok", "fail"}

Exists(colls, item_id) == get_collection_name(item_id) \in DOMAIN colls

PointsOf(colls, item_id) ==
    IF Exists(colls, item_id) THEN colls[get_collection_name(item_id)] ELSE <<>>

\* the points of a page, in store order
RECURSIVE PagePoints(_, _)
PagePoints(points, page_id) ==
    IF points = <<>> THEN <<>>
    ELSE (IF Head(points).payload.page_id = page_id THEN <<Head(points)>> ELSE <<>>)
         \o PagePoints(Tail(points), page_id)

SetPoints(colls, item_id, points) ==
    [colls EXCEPT ![get_collection_name(item_id)] = points]

\* RedisClient.set: setex of the key and of its auxiliary refresh key
RedisSet(r, key, value, ttl) ==
    LET entry == [value |-> value, expire_at |-> now + ttl]
        aux == key \o <<":", "_", "_", "r", "e", "f", "r", "e", "s", "h", "_", "_">>
    IN  [k \in DOMAIN r \cup {key, aux} |->
            IF k = key THEN entry
            ELSE IF k = aux THEN [value |-> 1, expire_at |-> now + ttl]
            ELSE r[k]]

\* RedisClient.delete: the key and its auxiliary refresh key
RedisDelete(r, key) ==
    LET aux == key \o <<":", "_", "_", "r", "e", "f", "r", "e", "s", "h", "_", "_">>
    IN  [k \in DOMAIN r \ {key, aux} |-> r[k]]

\* RedisClient.exists
RedisExists(r, key) == key \in DOMAIN r /\ r[key].expire_at > now

\* Indexer.record_access_time: a failure of the store is logged, not raised
record_access_time(r, item_id, outcome) ==
    IF outcome = "ok"
    THEN RedisSet(r, get_access_time_key(item_id), now, access_time_ttl)
    ELSE r

Init ==
    /\ collections = <<>>
    /\ redis = <<>>
    /\ now = 0
    /\ embedding \in EmbeddingModels
    /\ wpc = [w \in Workers |-> "idle"]
    /\ wtask = [w \in Workers |-> NoTask]
    /\ wpage = [w \in Workers |-> 0]
    /\ wbatch = [w \in Workers |-> 0]
    /\ wres = [w \in Workers |-> NoCounts]
    /\ hist = [w \in Workers |-> NoHist]
    /\ wstart = [w \in Workers |-> 0]
    /\ rpc = "idle"
    /\ rreq = NoReq
    /\ rvec = <<0, 0>>
    /\ rhits = <<>>
    /\ rkw = <<>>
    /\ rres = <<>>
    /\ apc = "idle"
    /\ areq = NoRequest
    /\ alist = <<>>
    /\ aidx = 0
    /\ ares = NoAnswer
    /\ service = "none"
    /\ model_instance = None
    /\ model_loaded = FALSE
    /\ model_lock = 0
    /\ last_used_time = None
    /\ tpc = [t \in Threads |-> "idle"]
    /\ tret = [t \in Threads |-> "idle"]
    /\ loads = 0
    /\ kpc = "idle"
    /\ kreq = NoReq
    /\ kcount = 0
    /\ kresults = <<>>
    /\ kret = <<>>
    /\ krequests = 0
    /\ klast = [points |-> <<>>, next_page_offset |-> None]

(***************************************************************************)
(* The worker tasks (worker/tasks.py) and the Indexer operations they call *)
(* (app/services/indexer.py).  Every call to the vector store is one step;  *)
(* what a task computes between two calls belongs to the step of the call   *)
(* before.                                                                  *)
(***************************************************************************)
CallPage(w) == wtask[w].pages[wpage[w]]

\* a worker takes its next task when the one before has returned or raised
Free(w) == wpc[w] \in {"idle", "returned", "raised"}

\* index_document_task.  When the call before it, by the same caller, was
\* the same call and returned normally, `hist` keeps the number of points the
\* page has between the two calls.
StartIndex(w, item_id, page) ==
    /\ Free(w)
    /\ hist' = [hist EXCEPT ![w] =
                   IF /\ wpc[w] = "returned"
                      /\ wtask[w] = [kind |-> "index", item_id |-> item_id,
                                     pages |-> <<page>>]
                   THEN {Len(PagePoints(PointsOf(collections, item_id), page.page_id))}
                   ELSE NoHist]
    /\ wpc' = [wpc EXCEPT ![w] = "ensure_check"]
    /\ wtask' = [wtask EXCEPT ![w] =
                    [kind |-> "index", item_id |-> item_id, pages |-> <<page>>]]
    /\ wpage' = [wpage EXCEPT ![w] = 1]
    /\ wbatch' = [wbatch EXCEPT ![w] = 0]
    /\ wres' = [wres EXCEPT ![w] = NoCounts]
    /\ wstart' = [wstart EXCEPT ![w] = now]
    /\ UNCHANGED <<collections, redis, now, embedding, mvars, kvars, rvars, avars>>

\* the route /index/delete: Indexer.delete_document called directly
StartDelete(w, item_id, page_id) ==
    /\ Free(w)
    /\ hist' = [hist EXCEPT ![w] = NoHist]
    /\ wpc' = [wpc EXCEPT ![w] = "delete_check"]
    /\ wtask' = [wtask EXCEPT ![w] =
                    [kind |-> "delete", item_id |-> item_id,
                     pages |-> <<MkPage(page_id, <<>>, <<>>, EmptyDict)>>]]
    /\ wpage' = [wpage EXCEPT ![w] = 1]
    /\ wbatch' = [wbatch EXCEPT ![w] = 0]
    /\ wres' = [wres EXCEPT ![w] = NoCounts]
    /\ wstart' = [wstart EXCEPT ![w] = now]
    /\ UNCHANGED <<collections, redis, now, embedding, mvars, kvars, rvars, avars>>

\* rebuild_index_task up to its first call of the vector store: the task
\* marker is set (a failure is logged and ignored)
StartRebuild(w, item_id, pages, outcome) ==
    /\ Free(w)
    /\ hist' = [hist EXCEPT ![w] = NoHist]
    /\ redis' = IF outcome = "ok"
                THEN RedisSet(redis, get_indexing_task_key(item_id), now,
                              task_marker_ttl)
                ELSE redis
    /\ wpc' = [wpc EXCEPT ![w] = "ensure_check"]
    /\ wtask' = [wtask EXCEPT ![w] =
                    [kind |-> "rebuild", item_id |-> item_id, pages |-> pages]]
    /\ wpage' = [wpage EXCEPT ![w] = 0]
    /\ wbatch' = [wbatch EXCEPT ![w] = 0]
    /\ wres' = [wres EXCEPT ![w] = NoCounts]
    /\ wstart' = [wstart EXCEPT ![w] = now]
    /\ UNCHANGED <<collections, now, embedding, mvars, kvars, rvars, avars>>

\* rebuild_index_task that gives up at the first page that fails
RaisedPcStop(w) ==
    IF wtask[w].kind = "index" THEN "raised"
    ELSE IF wpage[w] = 0 THEN "finally_raise"
    ELSE "finally"

\* where an exception that leaves ensure_collection or upsert_document goes:
\* out of index_document_task; into the finally block of rebuild_index_task
\* when ensure_collection was called by the task itself; into the except
\* clause of the page loop otherwise
RaisedPc(w) ==
    IF wtask[w].kind = "index" THEN "raised"
    ELSE IF wpage[w] = 0 THEN "finally_raise"
    ELSE "next_page"

RaisedRes(w) ==
    IF wtask[w].kind = "rebuild" /\ wpage[w] > 0
    THEN [wres[w] EXCEPT
            !.error = @ + 1,
            !.error_pages = Append(@, [page_id |-> CallPage(w).page_id,
                                       page_title |-> CallPage(w).page_title])]
    ELSE wres[w]

\* where a normal return of upsert_document goes
ReturnedPc(w) == IF wtask[w].kind = "rebuild" THEN "next_page" ELSE "returned"

ReturnedRes(w) ==
    IF wtask[w].kind = "rebuild"
    THEN [wres[w] EXCEPT !.success = @ + 1]
    ELSE wres[w]

\* ensure_collection, lines 63-66: get_collections and the membership test
EnsureCheck(w, outcome) ==
    /\ wpc[w] = "ensure_check"
    /\ IF outcome = "fail"
       THEN /\ wpc' = [wpc EXCEPT ![w] = RaisedPc(w)]
            /\ wres' = [wres EXCEPT ![w] = RaisedRes(w)]
       ELSE /\ wpc' = [wpc EXCEPT ![w] =
                          IF ~Exists(collections, wtask[w].item_id)
                          THEN "ensure_create"
                          ELSE IF wpage[w] = 0 THEN "record_access"
                          ELSE "delete_check"]
            /\ wres' = wres
    /\ UNCHANGED <<collections, redis, now, embedding, mvars, kvars, wtask, wpage, wbatch,
                   hist, wstart, rvars, avars>>

\* ensure_collection that creates the collection and records nothing
EnsureCreateSilent(w, outcome, redis_outcome) ==
    /\ wpc[w] = "ensure_create"
    /\ IF outcome = "fail" \/ Exists(collections, wtask[w].item_id)
       THEN /\ wpc' = [wpc EXCEPT ![w] = RaisedPc(w)]
            /\ wres' = [wres EXCEPT ![w] = RaisedRes(w)]
            /\ UNCHANGED <<collections, redis>>
       ELSE /\ collections' =
                  collections @@ (get_collection_name(wtask[w].item_id) :> <<>>)
            /\ redis' = redis
            /\ wpc' = [wpc EXCEPT ![w] =
                          IF wpage[w] = 0 THEN "record_access" ELSE "delete_check"]
            /\ wres' = wres
    /\ UNCHANGED <<now, embedding, mvars, kvars, wtask, wpage, wbatch, hist, wstart, rvars, avars>>

\* ensure_collection, lines 68-76: create_collection, which the store
\* refuses when the collection exists by now, then record_access_time
EnsureCreate(w, outcome, redis_outcome) ==
    /\ wpc[w] = "ensure_create"
    /\ IF outcome = "fail" \/ Exists(collections, wtask[w].item_id)
       THEN /\ wpc' = [wpc EXCEPT ![w] = RaisedPc(w)]
            /\ wres' = [wres EXCEPT ![w] = RaisedRes(w)]
            /\ UNCHANGED <<collections, redis>>
       ELSE /\ collections' =
                  collections @@ (get_collection_name(wtask[w].item_id) :> <<>>)
            /\ redis' = record_access_time(redis, wtask[w].item_id, redis_outcome)
            /\ wpc' = [wpc EXCEPT ![w] =
                          IF wpage[w] = 0 THEN "record_access" ELSE "delete_check"]
            /\ wres' = wres
    /\ UNCHANGED <<now, embedding, mvars, kvars, wtask, wpage, wbatch, hist, wstart, rvars, avars>>

\* rebuild_index_task, line 78
RecordAccess(w, redis_outcome) ==
    /\ wpc[w] = "record_access"
    /\ redis' = record_access_time(redis, wtask[w].item_id, redis_outcome)
    /\ wpc' = [wpc EXCEPT ![w] = "next_page"]
    /\ UNCHANGED <<collections, now, embedding, mvars, kvars, wtask, wpage, wbatch, wres,
                   hist, wstart, rvars, avars>>

\* rebuild_index_task that passes every page of the list to upsert_document,
\* the blank ones too
NextPageUpsertsBlank(w) ==
    /\ wpc[w] = "next_page"
    /\ IF wpage[w] = Len(wtask[w].pages)
       THEN /\ wpc' = [wpc EXCEPT ![w] = "finally"]
            /\ UNCHANGED wpage
       ELSE /\ wpage' = [wpage EXCEPT ![w] = @ + 1]
            /\ wpc' = [wpc EXCEPT ![w] = "ensure_check"]
    /\ wbatch' = [wbatch EXCEPT ![w] = 0]
    /\ UNCHANGED <<collections, redis, now, embedding, mvars, kvars, wtask, wres, hist, wstart, rvars, avars>>

\* rebuild_index_task, lines 86-111: the next page of the list; a page with
\* blank content is counted as skipped, another one is passed to
\* upsert_document
NextPage(w) ==
    /\ wpc[w] = "next_page"
    /\ IF wpage[w] = Len(wtask[w].pages)
       THEN /\ wpc' = [wpc EXCEPT ![w] = "finally"]
            /\ UNCHANGED <<wpage, wres>>
       ELSE /\ wpage' = [wpage EXCEPT ![w] = @ + 1]
            /\ IF IsBlank(wtask[w].pages[wpage[w] + 1].page_content)
               THEN /\ wres' = [wres EXCEPT ![w].skipped = @ + 1]
                    /\ wpc' = wpc
               ELSE /\ wres' = wres
                    /\ wpc' = [wpc EXCEPT ![w] = "ensure_check"]
    /\ wbatch' = [wbatch EXCEPT ![w] = 0]
    /\ UNCHANGED <<collections, redis, now, embedding, mvars, kvars, wtask, hist, wstart, rvars, avars>>

\* what follows delete_document: its caller's return, or lines 95-104 of
\* upsert_document
AfterDeletePc(w) ==
    IF wtask[w].kind = "delete" THEN "returned"
    ELSE IF IsBlank(CallPage(w).page_content) THEN ReturnedPc(w)
    ELSE "insert"

AfterDeleteRes(w) ==
    IF wtask[w].kind # "delete" /\ IsBlank(CallPage(w).page_content)
    THEN ReturnedRes(w)
    ELSE wres[w]

\* delete_document, lines 150-158: get_collections; nothing to delete when
\* the collection is missing or the call fails
DeleteCheck(w, outcome) ==
    /\ wpc[w] = "delete_check"
    /\ IF outcome = "ok" /\ Exists(collections, wtask[w].item_id)
       THEN /\ wpc' = [wpc EXCEPT ![w] = "delete_exec"]
            /\ wres' = wres
       ELSE /\ wpc' = [wpc EXCEPT ![w] = AfterDeletePc(w)]
            /\ wres' = [wres EXCEPT ![w] = AfterDeleteRes(w)]
    /\ UNCHANGED <<collections, redis, now, embedding, mvars, kvars, wtask, wpage, wbatch,
                   hist, wstart, rvars, avars>>

\* delete_document, lines 161-185: the filtered delete; a failure, or a
\* collection that is gone by now, is logged and not raised
DeleteExec(w, outcome) ==
    /\ wpc[w] = "delete_exec"
    /\ collections' =
          IF outcome = "ok" /\ Exists(collections, wtask[w].item_id)
          THEN SetPoints(collections, wtask[w].item_id,
                         DeleteByPage(PointsOf(collections, wtask[w].item_id),
                                      CallPage(w).page_id))
          ELSE collections
    /\ wpc' = [wpc EXCEPT ![w] = AfterDeletePc(w)]
    /\ wres' = [wres EXCEPT ![w] = AfterDeleteRes(w)]
    /\ UNCHANGED <<redis, now, embedding, mvars, kvars, wtask, wpage, wbatch, hist, wstart, rvars, avars>>

\* upsert_document, lines 106-143: one batch; embed every chunk of it, then
\* client.upsert.  A failure of either raises.
InsertBatch(w, outcome) ==
    /\ wpc[w] = "insert"
    /\ LET item_id == wtask[w].item_id
           chunks == ChunksOf[CallPage(w)]
           new == BatchPoints(embedding, item_id, CallPage(w), chunks, wbatch[w])
       IN  IF outcome = "fail" \/ ~Exists(collections, item_id)
           THEN /\ wpc' = [wpc EXCEPT ![w] = RaisedPc(w)]
                /\ wres' = [wres EXCEPT ![w] = RaisedRes(w)]
                /\ UNCHANGED <<collections, wbatch>>
           ELSE /\ Len(PointsOf(collections, item_id)) + Len(new) <= MaxPoints
                /\ \E points \in UpsertOutcomes(PointsOf(collections, item_id), new) :
                      collections' = SetPoints(collections, item_id, points)
                /\ wbatch' = [wbatch EXCEPT ![w] = @ + batch_size]
                /\ IF wbatch[w] + batch_size < Len(chunks)
                   THEN UNCHANGED <<wpc, wres>>
                   ELSE /\ wpc' = [wpc EXCEPT ![w] = ReturnedPc(w)]
                        /\ wres' = [wres EXCEPT ![w] = ReturnedRes(w)]
    /\ UNCHANGED <<redis, now, embedding, mvars, kvars, wtask, wpage, hist, wstart, rvars, avars>>

\* rebuild_index_task, lines 127-148: the finally block removes the task
\* marker (a failure is logged and ignored); then the task returns its
\* counters with the first failed pages, or the exception of
\* ensure_collection goes on
Finally(w, redis_outcome) ==
    /\ wpc[w] \in {"finally", "finally_raise"}
    /\ redis' = IF redis_outcome = "ok"
                THEN RedisDelete(redis, get_indexing_task_key(wtask[w].item_id))
                ELSE redis
    /\ wpc' = [wpc EXCEPT ![w] = IF wpc[w] = "finally" THEN "returned" ELSE "raised"]
    /\ wres' = [wres EXCEPT ![w].error_pages = Take(@, max_error_pages)]
    /\ UNCHANGED <<collections, now, embedding, mvars, kvars, wtask, wpage, wbatch,
                   hist, wstart, rvars, avars>>

\* the steps of upsert_document and of what it calls; the set gives the
\* outcomes that a call of the vector store, and of redis, may have
UpsertStep(w, outcomes, redis_outcomes) ==
    \/ \E o \in outcomes : EnsureCheck(w, o)
    \/ \E o \in outcomes, ro \in redis_outcomes : EnsureCreate(w, o, ro)
    \/ \E o \in outcomes : DeleteCheck(w, o)
    \/ \E o \in outcomes : DeleteExec(w, o)
    \/ \E o \in outcomes : InsertBatch(w, o)

\* the steps of rebuild_index_task around its calls of upsert_document
RebuildStep(w, rebuild_inputs, redis_outcomes) ==
    \/ \E c \in rebuild_inputs, ro \in redis_outcomes :
          StartRebuild(w, c[1], c[2], ro)
    \/ \E ro \in redis_outcomes : RecordAccess(w, ro)
    \/ NextPage(w)
    \/ \E ro \in redis_outcomes : Finally(w, ro)

(***************************************************************************)
(* HybridRetriever (app/services/retriever.py).                            *)
(***************************************************************************)
question_keywords ==
    << <<"RU", "HE">>, <<"ZEN", "ME">>, <<"SHEN", "ME">>,
       <<"WEI", "SHEN", "ME">>, <<"ZEN", "YANG">>, <<"NA", "GE">>,
       <<"NA", "XIE">>,
       <<"h", "o", "w">>, <<"w", "h", "a", "t">>, <<"w", "h", "y">>,
       <<"w", "h", "e", "n">>, <<"w", "h", "e", "r", "e">>,
       <<"w", "h", "i", "c", "h">>, <<"w", "h", "o">> >>

descriptive_keywords ==
    << <<"SHUO", "MING">>, <<"JIE4", "SHAO">>, <<"XIANG2", "XI">>,
       <<"BU", "ZHOU">>, <<"FANG", "FA">>, <<"LIU", "CHENG">>,
       <<"e", "x", "p", "l", "a", "i", "n">>,
       <<"d", "e", "s", "c", "r", "i", "b", "e">>,
       <<"d", "e", "t", "a", "i", "l">>, <<"s", "t", "e", "p">>,
       <<"m", "e", "t", "h", "o", "d">> >>

\* any(kw in text for kw in kws)
AnyIn(kws, text) == \E i \in 1..Len(kws) : Contains(text, kws[i])

is_title_query(query) ==
    LET q == Strip(query)
        query_lower == Lower(q)
    IN  IF Len(q) > 50 THEN FALSE
        ELSE IF AnyIn(question_keywords, query_lower) THEN FALSE
        ELSE IF AnyIn(descriptive_keywords, query_lower) THEN FALSE
        ELSE Len(q) <= 30

\* f"标题或页面名称：{query}"
TitleHint == <<"BIAO", "TI", "HUO", "YE", "MIAN", "MING", "CHENG", "COLON">>

enhanced_query(query) ==
    IF is_title_query(query) THEN TitleHint \o query ELSE query

\* a search result: ScoredPoint or SimpleResult
MkResult(payload, score) == [payload |-> payload, score |-> score]

\* the place of results[i] after the sort: behind the results with a higher
\* score and behind the earlier ones with the same score (the sort is stable)
SortRank(results, i) ==
    Cardinality({j \in 1..Len(results) :
                    \/ results[j].score > results[i].score
                    \/ results[j].score = results[i].score /\ j < i}) + 1

\* results.sort(key=lambda x: x.score, reverse=True)
SortDesc(results) ==
    [k \in 1..Len(results) |->
        results[CHOOSE i \in 1..Len(results) : SortRank(results, i) = k]]

\* client.query_points(query=query_vector, limit=limit): the limit nearest
\* points by cosine score
query_points(points, query_vector, limit) ==
    Take(SortDesc([i \in 1..Len(points) |->
                      MkResult(points[i].payload,
                               Cosine(points[i].vector, query_vector))]),
         limit)

scroll_limit == 1000

max_scroll_pages == 100

\* the raw score of a point in _keyword_search (lines 156-180) and whether
\* the point matched
KeywordScore(payload, query_lower, keywords_lower) ==
    LET content == Lower(payload.chunk_content)
        page_title == Lower(payload.page_title)
        full_title == /\ page_title # <<>>
                      /\ \/ Contains(page_title, query_lower)
                         \/ Contains(query_lower, page_title)
        kw_title == /\ page_title # <<>>
                    /\ ~full_title
                    /\ AnyIn(keywords_lower, page_title)
        matched_in_content == AnyIn(keywords_lower, content)
        RECURSIVE SumCounts(_)
        SumCounts(i) ==
            IF i > Len(keywords_lower) THEN 0
            ELSE Count(content, keywords_lower[i]) + SumCounts(i + 1)
    IN  [score |-> (IF full_title THEN 100 ELSE IF kw_title THEN 50 ELSE 0)
                   + (IF matched_in_content THEN SumCounts(1) ELSE 0),
         matched |-> full_title \/ kw_title \/ matched_in_content]

RECURSIVE ScanPage(_, _, _, _, _, _)
\* the for loop over the points of one page of the scroll (lines 155-195)
ScanPage(page, i, results, query_lower, keywords_lower, top_k) ==
    IF i > Len(page) THEN results
    ELSE LET ks == KeywordScore(page[i].payload, query_lower, keywords_lower)
             results1 == IF ks.matched
                         THEN Append(results,
                                     MkResult(page[i].payload, ks.score * 10))
                         ELSE results
         IN  IF ks.matched /\ Len(results1) >= top_k * 10 THEN results1
             ELSE ScanPage(page, i + 1, results1, query_lower, keywords_lower,
                           top_k)

RECURSIVE ScrollLoop(_, _, _, _, _, _, _)
\* the while loop over the pages of the scroll (lines 138-205); offset is
\* the number of points already read
ScrollLoop(points, offset, scroll_page_count, results, query_lower, keywords_lower, top_k) ==
    IF ~(scroll_page_count < max_scroll_pages) THEN results
    ELSE LET page == SubSeq(points, offset + 1,
                            Min(offset + scroll_limit, Len(points)))
             next_page_offset_is_none == offset + scroll_limit >= Len(points)
             results1 == ScanPage(page, 1, results, query_lower,
                                  keywords_lower, top_k)
         IN  IF page = <<>> THEN results
             ELSE IF Len(results1) >= top_k * 10 THEN results1
             ELSE IF next_page_offset_is_none THEN results1
             ELSE ScrollLoop(points, offset + scroll_limit,
                             scroll_page_count + 1, results1, query_lower,
                             keywords_lower, top_k)

\* the keywords of a query (lines 116-117)
Keywords(query) == Take(FilterLonger(FindAllTokens(query), 1), 3)

\* _keyword_search; readable tells whether the scroll of the collection
\* succeeds (it raises, and the search returns [], when the collection is
\* missing or the store fails)
keyword_search(points, readable, query, top_k) ==
    LET keywords == Keywords(query)
        keywords_lower == [i \in 1..Len(keywords) |-> Lower(keywords[i])]
    IN  IF keywords = <<>> THEN <<>>
        ELSE IF ~readable THEN <<>>
        ELSE Take(SortDesc(ScrollLoop(points, 0, 0, <<>>, Lower(query),
                                      keywords_lower, top_k)),
                  top_k)

\* f"{page_id}_{chunk_id}"
MergeKey(payload) ==
    DecStr(payload.page_id) \o <<"_">> \o DecStr(payload.chunk_id)

\* the title test of _merge_and_rerank, lines 240 and 263
TitleMatches(payload, query_lower) ==
    LET page_title == Lower(payload.page_title)
    IN  /\ page_title # <<>>
        /\ \/ Contains(page_title, query_lower)
           \/ Contains(query_lower, page_title)

\* the title test of line 246
TitlePartlyMatches(payload, query_lower) ==
    LET page_title == Lower(payload.page_title)
        words == FilterLonger(SplitWs(query_lower), 1)
    IN  page_title # <<>> /\ AnyIn(words, page_title)

\* the score _merge_and_rerank gives a vector result (lines 238-249)
VectorScore(result, query_lower) ==
    IF TitleMatches(result.payload, query_lower)
    THEN Min((result.score * 15) \div 10, 1000)
    ELSE IF TitlePartlyMatches(result.payload, query_lower)
    THEN Min((result.score * 12) \div 10, 1000)
    ELSE result.score

\* the score _merge_and_rerank gives a keyword result (lines 262-268)
\* a keyword-only score without the title score and the discount
KeywordOnlyScoreRaw(result, query_lower) == result.score

KeywordOnlyScore(result, query_lower) ==
    IF TitleMatches(result.payload, query_lower)
    THEN 800
    ELSE (result.score * 7) \div 10

HasKey(merged, key) == \E i \in 1..Len(merged) : merged[i].key = key

RECURSIVE MergeVector(_, _, _, _)
MergeVector(vector_results, i, merged, query_lower) ==
    IF i > Len(vector_results) THEN merged
    ELSE LET result == vector_results[i]
             key == MergeKey(result.payload)
         IN  MergeVector(vector_results, i + 1,
                 IF HasKey(merged, key) THEN merged
                 ELSE Append(merged,
                             [key |-> key,
                              result |-> MkResult(result.payload,
                                                  VectorScore(result, query_lower))]),
                 query_lower)

RECURSIVE MergeKeywordAll(_, _, _, _)
\* a fusion that adds every keyword result, in `merged` or not
MergeKeywordAll(keyword_results, i, merged, query_lower) ==
    IF i > Len(keyword_results) THEN merged
    ELSE LET result == keyword_results[i]
         IN  MergeKeywordAll(keyword_results, i + 1,
                 Append(merged,
                        [key |-> MergeKey(result.payload),
                         result |-> MkResult(result.payload,
                                             (result.score * 7) \div 10)]),
                 query_lower)

RECURSIVE MergeKeyword(_, _, _, _)
MergeKeyword(keyword_results, i, merged, query_lower) ==
    IF i > Len(keyword_results) THEN merged
    ELSE LET result == keyword_results[i]
             key == MergeKey(result.payload)
         IN  MergeKeyword(keyword_results, i + 1,
                 IF HasKey(merged, key) THEN merged
                 ELSE Append(merged,
                             [key |-> key,
                              result |-> MkResult(result.payload,
                                                  KeywordOnlyScore(result, query_lower))]),
                 query_lower)

\* _merge_and_rerank: the dict `merged` is kept as the sequence of its
\* items in insertion order
merge_and_rerank(vector_results, keyword_results, query) ==
    LET query_lower == Lower(query)
        merged == MergeKeyword(keyword_results, 1,
                               MergeVector(vector_results, 1, <<>>, query_lower),
                               query_lower)
    IN  SortDesc([i \in 1..Len(merged) |-> merged[i].result])

\* records for all the merged results, without the slice [:top_k]
ResultRecordsAll(merged_results, top_k) ==
    [i \in 1..Len(merged_results) |->
        [page_id    |-> merged_results[i].payload.page_id,
         page_title |-> merged_results[i].payload.page_title,
         content    |-> merged_results[i].payload.chunk_content,
         relevance  |-> merged_results[i].score,
         metadata   |-> merged_results[i].payload]]

\* retrieve, lines 90-102: the records returned for the merged results
ResultRecords(merged_results, top_k) ==
    LET top == Take(merged_results, top_k)
    IN  [i \in 1..Len(top) |->
            [page_id    |-> top[i].payload.page_id,
             page_title |-> top[i].payload.page_title,
             content    |-> top[i].payload.chunk_content,
             relevance  |-> top[i].score,
             metadata   |-> top[i].payload]]

\* retrieve, lines 83-102: what a call returns once it has the results of
\* the two searches
retrieve_tail(search_results, keyword_results, query, top_k) ==
    ResultRecords(merge_and_rerank(search_results, keyword_results, query), top_k)

\* retrieve on a collection that does not change during the call and with
\* every call succeeding
retrieve(points, model, query, top_k) ==
    retrieve_tail(query_points(points, EmbedWith(model, enhanced_query(query)),
                               top_k * 2),
                  keyword_search(points, TRUE, query, top_k * 2),
                  query, top_k)

(***************************************************************************)
(* A call of HybridRetriever.retrieve, one step per call of the vector      *)
(* store.                                                                   *)
(***************************************************************************)
QueryApi == <<"a", "p", "i">>

QueryHowApi == <<"h", "o", "w", " ", "a", "p", "i">>

Queries == {QueryApi, QueryHowApi}

\* the largest top_k asked for
MaxTopK == 2

\* the text that retrieve embeds for each of the queries
EnhancedQueries == [query \in Queries |-> enhanced_query(query)]

\* retrieve, lines 45-66: the query is embedded; a failure of the embedding
\* service is raised as RuntimeError
StartRetrieve(query, item_id, top_k, outcome) ==
    /\ rpc \in {"idle", "returned", "raised"}
    /\ rreq' = [query |-> query, item_id |-> item_id, top_k |-> top_k]
    /\ IF outcome = "fail"
       THEN /\ rpc' = "raised"
            /\ rvec' = <<0, 0>>
       ELSE /\ rpc' = "query"
            /\ rvec' = EmbedWith(embedding, EnhancedQueries[query])
    /\ rhits' = <<>>
    /\ rkw' = <<>>
    /\ rres' = <<>>
    /\ UNCHANGED <<collections, redis, now, embedding, mvars, kvars, wvars, avars>>

\* retrieve, lines 69-76: client.query_points, which raises when the
\* collection does not exist or the store fails
QueryPoints(outcome) ==
    /\ rpc = "query"
    /\ IF outcome = "fail" \/ ~Exists(collections, rreq.item_id)
       THEN /\ rpc' = "raised"
            /\ rhits' = rhits
       ELSE /\ rpc' = "scroll"
            /\ rhits' = query_points(PointsOf(collections, rreq.item_id), rvec,
                                     rreq.top_k * 2)
    /\ UNCHANGED <<collections, redis, now, embedding, mvars, kvars, wvars, avars, rreq, rvec, rkw, rres>>

\* retrieve, lines 81-102: the keyword search (one scroll of the
\* collection), the fusion and the result
KeywordAndMerge(outcome) ==
    /\ rpc = "scroll"
    /\ rkw' = keyword_search(PointsOf(collections, rreq.item_id),
                             outcome = "ok" /\ Exists(collections, rreq.item_id),
                             rreq.query, rreq.top_k * 2)
    /\ rres' = retrieve_tail(rhits, rkw', rreq.query, rreq.top_k)
    /\ rpc' = "returned"
    /\ UNCHANGED <<collections, redis, now, embedding, mvars, kvars, wvars, avars, rreq, rvec, rhits>>

ReaderStep(queries, items, outcomes) ==
    \/ \E q \in queries, item_id \in items, top_k \in 1..MaxTopK, o \in outcomes :
          StartRetrieve(q, item_id, top_k, o)
    \/ \E o \in outcomes : QueryPoints(o)
    \/ \E o \in outcomes : KeywordAndMerge(o)

(***************************************************************************)
(* Time and the access-time records.                                       *)
(***************************************************************************)
\* seconds in a day (`days * 24 * 60 * 60` in cleanup_unused_indexes)
day == 24 * 60 * 60

\* the clock is followed over a few days after the start and, again, over a
\* few days after the records written at the start have expired
MaxDays == 2

Instants ==
    {d * day : d \in 0..MaxDays} \cup {access_time_ttl + d * day : d \in 0..MaxDays}

\* no task is running and no call or request is being served
Quiescent ==
    /\ \A w \in Workers : wpc[w] \in {"idle", "returned", "raised"}
    /\ rpc \in {"idle", "returned", "raised"}
    /\ apc \in {"idle", "returned"}

\* the result of a finished task is collected, and the worker waits for its
\* next task
Collect(w) ==
    /\ wpc[w] \in {"returned", "raised"}
    /\ wpc' = [wpc EXCEPT ![w] = "idle"]
    /\ wtask' = [wtask EXCEPT ![w] = NoTask]
    /\ wpage' = [wpage EXCEPT ![w] = 0]
    /\ wbatch' = [wbatch EXCEPT ![w] = 0]
    /\ wres' = [wres EXCEPT ![w] = NoCounts]
    /\ hist' = [hist EXCEPT ![w] = NoHist]
    /\ wstart' = [wstart EXCEPT ![w] = 0]
    /\ UNCHANGED <<collections, redis, now, embedding, mvars, kvars, rvars, avars>>

\* nothing is running and nothing is left of what ran before
AtRest ==
    /\ \A w \in Workers : wpc[w] = "idle"
    /\ rpc = "idle"
    /\ apc = "idle"

\* time passes: by a day at most while something is running (no task and no
\* request lasts as long as a record of the key-value store), by any time
\* otherwise; and between the calls of the threads that use the local model
\* (no such call lasts as long as the idle timeout)
Tick ==
    /\ \A th \in Threads : tpc[th] = "idle"
    /\ \E t \in Instants :
          /\ t > now
          /\ t - now <= day \/ Quiescent
          /\ now' = t
    /\ UNCHANGED <<collections, redis, embedding, mvars, kvars, wvars, rvars, avars>>

\* RedisClient.get(key, refresh_ttl=False): the value, if the key has one
RedisGet(r, key) == IF RedisExists(r, key) THEN {r[key].value} ELSE {}

\* get_access_time that reads a missing record as the time 0
get_access_time_zero(r, item_id, outcome) ==
    IF outcome = "ok" /\ RedisExists(r, get_access_time_key(item_id))
    THEN RedisGet(r, get_access_time_key(item_id))
    ELSE {0}

\* Indexer.get_access_time: None (the empty set) when there is no record or
\* when the key-value store fails
get_access_time(r, item_id, outcome) ==
    IF outcome = "ok" THEN RedisGet(r, get_access_time_key(item_id)) ELSE {}

(***************************************************************************)
(* The requests served by the routers (app/routers/chat.py,                *)
(* app/routers/index.py) and the Indexer operations they call.  One        *)
(* request is served at a time, one step per call of a store.              *)
(***************************************************************************)
Idle == apc \in {"idle", "returned"}

NewRequest(op, item_id, ids, days, start) ==
    [op |-> op, item_id |-> item_id, ids |-> ids, days |-> days, start |-> start]

\* the routes /chat and /chat/stream record the access time and hand the
\* question to the conversation manager, whose retrieval is the call of
\* HybridRetriever.retrieve modelled above and writes nothing to the index
ChatRequest(item_id, redis_outcome) ==
    /\ Idle
    /\ areq' = NewRequest("chat", item_id, {}, 0, now)
    /\ redis' = record_access_time(redis, item_id, redis_outcome)
    /\ apc' = "returned"
    /\ ares' = [status |-> "chat"]
    /\ UNCHANGED <<collections, now, embedding, mvars, kvars, wvars, rvars, alist, aidx>>

\* the route /index/status: record_access_time, then Indexer.get_status
StartStatus(item_id, redis_outcome) ==
    /\ Idle
    /\ areq' = NewRequest("status", item_id, {}, 0, now)
    /\ redis' = record_access_time(redis, item_id, redis_outcome)
    /\ apc' = "status_task"
    /\ ares' = NoAnswer
    /\ UNCHANGED <<collections, now, embedding, mvars, kvars, wvars, rvars, alist, aidx>>

\* what Celery's inspect reports: a rebuild_index task of the project that
\* a worker is running
RebuildRunning(item_id) ==
    \E w \in Workers :
        /\ ~Free(w)
        /\ wtask[w].kind = "rebuild"
        /\ wtask[w].item_id = item_id

\* Indexer._check_indexing_task: the task marker, then Celery's inspect; a
\* failure of either is logged and counts as "no task"
check_indexing_task(item_id, redis_outcome, celery_outcome) ==
    \/ redis_outcome = "ok" /\ RedisExists(redis, get_indexing_task_key(item_id))
    \/ celery_outcome = "ok" /\ RebuildRunning(item_id)

\* get_status, the collection is not in the list
StatusMissing(is_indexing) ==
    [status |-> IF is_indexing THEN "indexing" ELSE "not_indexed",
     indexed |-> FALSE, document_count |-> 0]

\* get_status that reports `indexed` whatever task is running
StatusPresentAlways(is_indexing, points_count) ==
    [status |-> "indexed", indexed |-> TRUE, document_count |-> points_count]

\* get_status, the collection exists and its points are counted
StatusPresent(is_indexing, points_count) ==
    [status |-> IF is_indexing THEN "indexing" ELSE "indexed",
     indexed |-> TRUE, document_count |-> points_count]

\* get_status, a call of the vector store has failed
StatusFailed(is_indexing) ==
    [status |-> IF is_indexing THEN "indexing" ELSE "not_indexed",
     indexed |-> FALSE, document_count |-> 0]

\* what get_status has met so far, kept next to its answer: whether a task
\* was detected, whether the collection was found, whether its points were
\* counted
Met(answer, is_indexing, found, counted) ==
    [status |-> answer.status, indexed |-> answer.indexed,
     document_count |-> answer.document_count,
     is_indexing |-> is_indexing, found |-> found, counted |-> counted]

\* get_status, line 344: _check_indexing_task
StatusTask(redis_outcome, celery_outcome) ==
    /\ apc = "status_task"
    /\ LET is_indexing ==
               check_indexing_task(areq.item_id, redis_outcome, celery_outcome)
       IN  ares' = Met(StatusFailed(is_indexing), is_indexing, FALSE, FALSE)
    /\ apc' = "status_collections"
    /\ UNCHANGED <<collections, redis, now, embedding, mvars, kvars, wvars, rvars, areq, alist,
                   aidx>>

\* get_status, lines 347-368: client.get_collections
StatusCollections(outcome) ==
    /\ apc = "status_collections"
    /\ IF outcome = "fail"
       THEN /\ apc' = "returned"
            /\ ares' = Met(StatusFailed(ares.is_indexing), ares.is_indexing,
                           FALSE, FALSE)
       ELSE IF ~Exists(collections, areq.item_id)
       THEN /\ apc' = "returned"
            /\ ares' = Met(StatusMissing(ares.is_indexing), ares.is_indexing,
                           FALSE, FALSE)
       ELSE /\ apc' = "status_count"
            /\ ares' = [ares EXCEPT !.found = TRUE]
    /\ UNCHANGED <<collections, redis, now, embedding, mvars, kvars, wvars, rvars, areq, alist,
                   aidx>>

\* get_status, lines 371-375: client.get_collection, which raises when the
\* collection has gone in the meantime
StatusCount(outcome) ==
    /\ apc = "status_count"
    /\ IF outcome = "ok" /\ Exists(collections, areq.item_id)
       THEN /\ apc' = "returned"
            /\ ares' = Met(StatusPresent(ares.is_indexing,
                                         Len(PointsOf(collections, areq.item_id))),
                           ares.is_indexing, TRUE, TRUE)
       ELSE /\ apc' = "status_fallback"
            /\ ares' = ares
    /\ UNCHANGED <<collections, redis, now, embedding, mvars, kvars, wvars, rvars, areq, alist,
                   aidx>>

\* get_status, lines 376-392: client.scroll and client.count, after
\* get_collection has failed
StatusFallback(outcome) ==
    /\ apc = "status_fallback"
    /\ apc' = "returned"
    /\ IF outcome = "ok" /\ Exists(collections, areq.item_id)
       THEN ares' = Met(StatusPresent(ares.is_indexing,
                                      Len(PointsOf(collections, areq.item_id))),
                        ares.is_indexing, TRUE, TRUE)
       ELSE ares' = Met(StatusFailed(ares.is_indexing), ares.is_indexing,
                        TRUE, FALSE)
    /\ UNCHANGED <<collections, redis, now, embedding, mvars, kvars, wvars, rvars, areq, alist,
                   aidx>>

StatusStep(items, outcomes, redis_outcomes) ==
    \/ \E item_id \in items, ro \in redis_outcomes : StartStatus(item_id, ro)
    \/ \E ro \in redis_outcomes, co \in outcomes : StatusTask(ro, co)
    \/ \E o \in outcomes : StatusCollections(o)
    \/ \E o \in outcomes : StatusCount(o)
    \/ \E o \in outcomes : StatusFallback(o)

\* str.replace(pat, ""): every occurrence of pat is removed, left to right
RECURSIVE RemoveAll(_, _)
RemoveAll(s, pat) ==
    IF s = <<>> THEN <<>>
    ELSE IF MatchAt(s, pat, 1)
    THEN RemoveAll(SubSeq(s, Len(pat) + 1, Len(s)), pat)
    ELSE <<Head(s)>> \o RemoveAll(Tail(s), pat)

RECURSIVE DigitsValue(_, _)
DigitsValue(s, acc) ==
    IF s = <<>> THEN acc
    ELSE IF Head(s) = "_" THEN DigitsValue(Tail(s), acc)
    ELSE DigitsValue(Tail(s),
                     acc * 10 + ((CHOOSE d \in 1..10 : DigitChars[d] = Head(s)) - 1))

\* int(s): blanks around, a sign, decimal digits with single underscores
\* between them; the set is empty where int raises ValueError
ParseInt(s) ==
    LET t == Strip(s)
        signed == t # <<>> /\ Head(t) \in {"+", "-"}
        body == IF signed THEN Tail(t) ELSE t
        wellFormed ==
            /\ body # <<>>
            /\ \A i \in 1..Len(body) : body[i] \in Digits \cup {"_"}
            /\ body[1] # "_"
            /\ body[Len(body)] # "_"
            /\ \A i \in 1..(Len(body) - 1) : ~(body[i] = "_" /\ body[i + 1] = "_")
    IN  IF ~wellFormed THEN {}
        ELSE IF signed /\ Head(t) = "-" THEN {0 - DigitsValue(body, 0)}
        ELSE {DigitsValue(body, 0)}

\* cleanup_unused_indexes, lines 459-467: the project id in a collection
\* name, if the name has the prefix and the rest is an integer
item_id_in(collection_name) ==
    IF StartsWith(collection_name, collection_prefix)
    THEN ParseInt(RemoveAll(collection_name, collection_prefix))
    ELSE {}

\* the orders in which the vector store may list a set of collections
RECURSIVE Listings(_)
Listings(names) ==
    IF names = {} THEN {<<>>}
    ELSE UNION {{<<n>> \o rest : rest \in Listings(names \ {n})} : n \in names}

\* client.delete_collection
DropCollection(colls, collection_name) ==
    [n \in DOMAIN colls \ {collection_name} |-> colls[n]]

\* a collection that another user of the vector store has created
OtherName == <<"o", "t", "h", "e", "r">>

\* a collection under the prefix whose name does not end in a project id
NoIdName == collection_prefix \o <<"x">>

ForeignNames == {OtherName, NoIdName}

\* the project id in every collection name of the model, computed once
ItemIds ==
    [n \in {get_collection_name(item_id) : item_id \in Items} \cup ForeignNames |->
        item_id_in(n)]

ItemIdOf(collection_name) == ItemIds[collection_name]

\* another user of the vector store creates a collection of its own
ForeignCreate(collection_name) ==
    /\ collection_name \notin DOMAIN collections
    /\ collections' = [n \in DOMAIN collections \cup {collection_name} |->
                          IF n = collection_name THEN <<>> ELSE collections[n]]
    /\ UNCHANGED <<redis, now, embedding, mvars, kvars, wvars, rvars, avars>>

\* the most project ids that cleanup_unused_indexes lists in its answer
max_deleted_items == 50

\* the counters of a clean-up, with the collections there were when it
\* started and whether one of its calls has failed
NoSummary ==
    [status |-> "success", total_collections |-> 0, valid_collections |-> 0,
     orphaned_collections |-> 0, deleted_count |-> 0, skipped_count |-> 0,
     error_count |-> 0, deleted_items |-> <<>>, expire_timestamp |-> 0,
     failed |-> FALSE, names_before |-> {}]

Summary(outcome) ==
    [NoSummary EXCEPT !.failed = (outcome = "fail"),
                      !.names_before = DOMAIN collections]

\* the route /index/delete-item, Indexer.delete_item up to
\* client.get_collections
StartDeleteItem(item_id, outcome) ==
    /\ Idle
    /\ areq' = NewRequest("delete_item", item_id, {}, 0, 0)
    /\ IF outcome = "ok" /\ Exists(collections, item_id)
       THEN /\ apc' = "delete_item_exec"
            /\ ares' = Summary(outcome)
       ELSE /\ apc' = "returned"
            /\ ares' = [Summary(outcome) EXCEPT !.status = "absent"]
    /\ UNCHANGED <<collections, redis, now, embedding, mvars, kvars, wvars, rvars, alist, aidx>>

\* delete_item, lines 196-198: client.delete_collection
DeleteItemExec(outcome) ==
    /\ apc = "delete_item_exec"
    /\ apc' = "returned"
    /\ IF outcome = "ok"
       THEN /\ collections' = DropCollection(collections,
                                             get_collection_name(areq.item_id))
            /\ ares' = [ares EXCEPT !.status = "deleted", !.deleted_count = 1]
       ELSE /\ collections' = collections
            /\ ares' = [ares EXCEPT !.status = "absent", !.failed = TRUE]
    /\ UNCHANGED <<redis, now, embedding, mvars, kvars, wvars, rvars, areq, alist, aidx>>

\* cleanup_orphaned_collections, lines 234-240
OrphanedOf(all_collections, valid_item_ids) ==
    SelectSeq(all_collections,
              LAMBDA n : /\ StartsWith(n, collection_prefix)
                         /\ n \notin {get_collection_name(i) : i \in valid_item_ids})

\* the route /index/cleanup-orphaned, cleanup_orphaned_collections up to
\* its first client.delete_collection
StartOrphaned(valid_item_ids, outcome) ==
    /\ Idle
    /\ areq' = NewRequest("cleanup_orphaned", 0, valid_item_ids, 0, 0)
    /\ \E listing \in Listings(DOMAIN collections) :
          LET all_collections == IF outcome = "ok" THEN listing ELSE <<>>
              orphaned_collections == OrphanedOf(all_collections, valid_item_ids)
          IN  /\ alist' = orphaned_collections
              /\ aidx' = IF orphaned_collections = <<>> THEN 0 ELSE 1
              /\ apc' = IF orphaned_collections = <<>> THEN "returned"
                        ELSE "orphaned_delete"
              /\ ares' = [Summary(outcome) EXCEPT
                              !.total_collections = Len(all_collections),
                              !.valid_collections =
                                  Cardinality({get_collection_name(i) :
                                                  i \in valid_item_ids}),
                              !.orphaned_collections = Len(orphaned_collections)]
    /\ UNCHANGED <<collections, redis, now, embedding, mvars, kvars, wvars, rvars>>

\* cleanup_orphaned_collections, lines 244-251: client.delete_collection for
\* one orphan; a failure is logged and the loop goes on
OrphanedDelete(outcome) ==
    /\ apc = "orphaned_delete"
    /\ IF outcome = "ok"
       THEN /\ collections' = DropCollection(collections, alist[aidx])
            /\ ares' = [ares EXCEPT !.deleted_count = @ + 1]
       ELSE /\ collections' = collections
            /\ ares' = [ares EXCEPT !.failed = TRUE]
    /\ IF aidx = Len(alist)
       THEN apc' = "returned" /\ alist' = <<>> /\ aidx' = 0
       ELSE apc' = "orphaned_delete" /\ alist' = alist /\ aidx' = aidx + 1
    /\ UNCHANGED <<redis, now, embedding, mvars, kvars, wvars, rvars, areq>>

\* cleanup_unused_indexes, lines 458-467: the next collection of the list
\* that has the prefix and a project id
RECURSIVE NextCandidate(_, _)
NextCandidate(list, i) ==
    IF i > Len(list) \/ ItemIdOf(list[i]) # {} THEN i
    ELSE NextCandidate(list, i + 1)

CandidateId == CHOOSE item_id \in ItemIdOf(alist[aidx]) : TRUE

\* cleanup_unused_indexes goes to the next collection, or returns
UnusedAdvance(summary) ==
    LET next == NextCandidate(alist, aidx + 1)
    IN  IF next > Len(alist)
        THEN /\ apc' = "returned"
             /\ alist' = <<>>
             /\ aidx' = 0
             /\ ares' = [summary EXCEPT
                            !.deleted_items = Take(@, max_deleted_items)]
        ELSE /\ apc' = "unused_visit"
             /\ alist' = alist
             /\ aidx' = next
             /\ ares' = summary

\* the route /index/cleanup-unused and cleanup_unused_indexes_task:
\* cleanup_unused_indexes up to its first call of the key-value store
StartUnused(days, outcome) ==
    /\ Idle
    /\ areq' = NewRequest("cleanup_unused", 0, {}, days, 0)
    /\ \E listing \in Listings(DOMAIN collections) :
          LET all_collections == IF outcome = "ok" THEN listing ELSE <<>>
              first == NextCandidate(all_collections, 1)
          IN  /\ alist' = IF first > Len(all_collections) THEN <<>>
                          ELSE all_collections
              /\ aidx' = IF first > Len(all_collections) THEN 0 ELSE first
              /\ apc' = IF first > Len(all_collections) THEN "returned"
                        ELSE "unused_visit"
              /\ ares' = [Summary(outcome) EXCEPT
                              !.total_collections = Len(all_collections),
                              !.expire_timestamp = now - days * day]
    /\ UNCHANGED <<collections, redis, now, embedding, mvars, kvars, wvars, rvars>>

\* cleanup_unused_indexes deleting a collection whose access time equals
\* expire_timestamp too
UnusedVisitIncl(redis_outcome) ==
    /\ apc = "unused_visit"
    /\ LET access_time == get_access_time(redis, CandidateId, redis_outcome)
           seen == [ares EXCEPT !.failed = @ \/ redis_outcome = "fail"]
       IN  IF access_time = {}
           THEN UnusedAdvance([seen EXCEPT !.skipped_count = @ + 1])
           ELSE IF \E t \in access_time : t <= ares.expire_timestamp
           THEN /\ apc' = "unused_delete"
                /\ ares' = seen
                /\ UNCHANGED <<alist, aidx>>
           ELSE UnusedAdvance(seen)
    /\ UNCHANGED <<collections, redis, now, embedding, mvars, kvars, wvars, rvars, areq>>

\* cleanup_unused_indexes, lines 469-480: get_access_time for one
\* collection and the comparison with expire_timestamp
UnusedVisit(redis_outcome) ==
    /\ apc = "unused_visit"
    /\ LET access_time == get_access_time(redis, CandidateId, redis_outcome)
           seen == [ares EXCEPT !.failed = @ \/ redis_outcome = "fail"]
       IN  IF access_time = {}
           THEN UnusedAdvance([seen EXCEPT !.skipped_count = @ + 1])
           ELSE IF \E t \in access_time : t < ares.expire_timestamp
           THEN /\ apc' = "unused_delete"
                /\ ares' = seen
                /\ UNCHANGED <<alist, aidx>>
           ELSE UnusedAdvance(seen)
    /\ UNCHANGED <<collections, redis, now, embedding, mvars, kvars, wvars, rvars, areq>>

\* cleanup_unused_indexes, lines 482-486 and 491-494: client.delete_collection
UnusedDelete(outcome) ==
    /\ apc = "unused_delete"
    /\ IF outcome = "ok"
       THEN /\ collections' = DropCollection(collections, alist[aidx])
            /\ apc' = "unused_forget"
            /\ UNCHANGED <<ares, alist, aidx>>
       ELSE /\ collections' = collections
            /\ UnusedAdvance([ares EXCEPT !.error_count = @ + 1,
                                          !.failed = TRUE])
    /\ UNCHANGED <<redis, now, embedding, mvars, kvars, wvars, rvars, areq>>

\* cleanup_unused_indexes, lines 487-490: the access-time record is deleted
\* (a failure of the key-value store is logged by RedisClient.delete)
UnusedForget(redis_outcome) ==
    /\ apc = "unused_forget"
    /\ redis' = IF redis_outcome = "ok"
                THEN RedisDelete(redis, get_access_time_key(CandidateId))
                ELSE redis
    /\ UnusedAdvance([ares EXCEPT !.deleted_count = @ + 1,
                                  !.deleted_items = Append(@, CandidateId),
                                  !.failed = @ \/ redis_outcome = "fail"])
    /\ UNCHANGED <<collections, now, embedding, mvars, kvars, wvars, rvars, areq>>

\* the answer of a request has been sent
Answer ==
    /\ apc = "returned"
    /\ apc' = "idle"
    /\ areq' = NoRequest
    /\ alist' = <<>>
    /\ aidx' = 0
    /\ ares' = NoAnswer
    /\ UNCHANGED <<collections, redis, now, embedding, mvars, kvars, wvars, rvars>>

CleanupStep(items, id_sets, day_counts, outcomes, redis_outcomes) ==
    \/ \E item_id \in items, o \in outcomes : StartDeleteItem(item_id, o)
    \/ \E o \in outcomes : DeleteItemExec(o)
    \/ \E ids \in id_sets, o \in outcomes : StartOrphaned(ids, o)
    \/ \E o \in outcomes : OrphanedDelete(o)
    \/ \E days \in day_counts, o \in outcomes : StartUnused(days, o)
    \/ \E ro \in redis_outcomes : UnusedVisit(ro)
    \/ \E o \in outcomes : UnusedDelete(o)
    \/ \E ro \in redis_outcomes : UnusedForget(ro)

(***************************************************************************)
(* The local embedding model (app/utils/embedding.py in the API process    *)
(* and the workers, model_service/main.py in the model service).  The      *)
(* handle, its flag and its lock belong to one process; the calls of the   *)
(* process are threads, one step per access to the shared handle.  Both    *)
(* programs guard the handle with a threading.Lock.                        *)
(***************************************************************************)

\* _idle_timeout, in seconds
idle_timeout == 3600

\* the most models a process is let to construct before it stops serving
MaxLoads == 2

\* the programs that hold a local model
Services == {"EmbeddingService", "model_service"}

\* the thread goes on at the given place of its call
Goto(t, pc) == tpc' = [tpc EXCEPT ![t] = pc]

\* EmbeddingService.__init__, or the start of the model service, whose
\* startup_event loads the model before any request is served and goes on
\* without it if that fails
Construct(impl, outcome) ==
    /\ service = "none"
    /\ service' = impl
    /\ IF impl = "model_service" /\ outcome = "ok"
       THEN /\ model_instance' = 1
            /\ model_loaded' = TRUE
            /\ last_used_time' = now
            /\ loads' = 1
       ELSE UNCHANGED <<model_instance, model_loaded, last_used_time, loads>>
    /\ UNCHANGED <<model_lock, tpc, tret>>
    /\ UNCHANGED <<collections, redis, now, embedding, wvars, rvars, avars, kvars>>

\* EmbeddingService.embed, up to its call of _local_embed
Embed(t) ==
    /\ service = "EmbeddingService"
    /\ \/ /\ tpc[t] = "idle"
          /\ loads < MaxLoads
          /\ Goto(t, IF model_loaded /\ model_instance = None
                     THEN "embed_reset" ELSE "embed_ensure")
          /\ UNCHANGED <<model_loaded, last_used_time, tret>>
       \/ /\ tpc[t] = "embed_reset"
          /\ model_loaded' = FALSE
          /\ Goto(t, "embed_ensure")
          /\ UNCHANGED <<last_used_time, tret>>
       \/ /\ tpc[t] = "embed_ensure"
          /\ IF ~model_loaded
             THEN /\ Goto(t, "init_lock")
                  /\ tret' = [tret EXCEPT ![t] = "embed_touch"]
             ELSE /\ Goto(t, "embed_touch")
                  /\ UNCHANGED tret
          /\ UNCHANGED <<model_loaded, last_used_time>>
       \/ /\ tpc[t] = "embed_touch"
          /\ last_used_time' = now
          /\ Goto(t, "local_check")
          /\ UNCHANGED <<model_loaded, tret>>
    /\ UNCHANGED <<service, model_instance, model_lock, loads>>
    /\ UNCHANGED <<collections, redis, now, embedding, wvars, rvars, avars, kvars>>

\* EmbeddingService._local_embed: the check, the guard and the use of
\* self.model are three reads of the attribute
LocalEmbed(t) ==
    /\ service = "EmbeddingService"
    /\ \/ /\ tpc[t] = "local_check"
          /\ IF ~model_loaded \/ model_instance = None
             THEN /\ Goto(t, "init_lock")
                  /\ tret' = [tret EXCEPT ![t] = "local_guard"]
             ELSE /\ Goto(t, "local_guard")
                  /\ UNCHANGED tret
       \/ /\ tpc[t] = "local_guard"
          /\ Goto(t, IF model_instance = None THEN "raised_uninit" ELSE "encode")
          /\ UNCHANGED tret
       \/ /\ tpc[t] = "encode"
          /\ Goto(t, IF model_instance = None THEN "raised_torn" ELSE "returned")
          /\ UNCHANGED tret
    /\ UNCHANGED <<service, model_instance, model_loaded, model_lock,
                   last_used_time, loads>>
    /\ UNCHANGED <<collections, redis, now, embedding, wvars, rvars, avars, kvars>>

\* EmbeddingService._init_model: the whole body runs inside `with self._lock`
InitModel(t, outcome) ==
    /\ service = "EmbeddingService"
    /\ \/ /\ tpc[t] = "init_lock"
          /\ model_lock = 0
          /\ IF model_loaded /\ model_instance # None
             THEN /\ Goto(t, tret[t])
                  /\ UNCHANGED model_lock
             ELSE /\ Goto(t, "init_load")
                  /\ model_lock' = t
          /\ UNCHANGED <<model_instance, model_loaded, last_used_time, loads>>
       \/ /\ tpc[t] = "init_load"
          /\ model_lock' = 0
          /\ model_loaded' = TRUE
          /\ IF outcome = "ok"
             THEN /\ model_instance' = 1
                  /\ last_used_time' = now
                  /\ loads' = loads + 1
                  /\ Goto(t, tret[t])
             ELSE /\ model_instance' = None
                  /\ loads' = 0
                  /\ Goto(t, "raised_load")
                  /\ UNCHANGED last_used_time
    /\ UNCHANGED <<service, tret>>
    /\ UNCHANGED <<collections, redis, now, embedding, wvars, rvars, avars, kvars>>

\* check_and_unload_if_idle, the same in both programs, up to its call of
\* unload_model
CheckAndUnloadIfIdle(t) ==
    /\ service \in Services
    /\ tpc[t] = "idle"
    /\ Goto(t, IF model_instance = None \/ last_used_time = None
               THEN "returned"
               ELSE IF now - last_used_time > idle_timeout
                    THEN "unload_lock" ELSE "returned")
    /\ UNCHANGED <<service, model_instance, model_loaded, model_lock,
                   last_used_time, tret, loads>>
    /\ UNCHANGED <<collections, redis, now, embedding, wvars, rvars, avars, kvars>>

\* unload_model, the same in both programs: the handle is set to None inside
\* the lock, the flag is left as it is
UnloadModel(t) ==
    /\ service \in Services
    /\ \/ /\ tpc[t] = "unload_lock"
          /\ model_lock = 0
          /\ model_lock' = t
          /\ Goto(t, "unloading")
          /\ UNCHANGED <<model_instance, loads>>
       \/ /\ tpc[t] = "unloading"
          /\ model_lock' = 0
          /\ IF model_instance # None
             THEN model_instance' = None /\ loads' = 0
             ELSE UNCHANGED <<model_instance, loads>>
          /\ Goto(t, "returned")
    /\ UNCHANGED <<service, model_loaded, last_used_time, tret>>
    /\ UNCHANGED <<collections, redis, now, embedding, wvars, rvars, avars, kvars>>

\* embed of the model service
MsEmbed(t) ==
    /\ service = "model_service"
    /\ \/ /\ tpc[t] = "idle"
          /\ loads < MaxLoads
          /\ IF ~model_loaded \/ model_instance = None
             THEN /\ Goto(t, "load_lock")
                  /\ tret' = [tret EXCEPT ![t] = "ms_touch"]
             ELSE /\ Goto(t, "ms_touch")
                  /\ UNCHANGED tret
          /\ UNCHANGED last_used_time
       \/ /\ tpc[t] = "ms_touch"
          /\ last_used_time' = now
          /\ Goto(t, "ms_encode")
          /\ UNCHANGED tret
       \/ /\ tpc[t] = "ms_encode"
          /\ Goto(t, IF model_instance = None THEN "raised_torn" ELSE "returned")
          /\ UNCHANGED <<last_used_time, tret>>
    /\ UNCHANGED <<service, model_instance, model_loaded, model_lock, loads>>
    /\ UNCHANGED <<collections, redis, now, embedding, wvars, rvars, avars, kvars>>

\* load_model of the model service: `with _model_lock` holds the test
\* alone, the model is constructed after the lock is released
LoadModel(t, outcome) ==
    /\ service = "model_service"
    /\ \/ /\ tpc[t] = "load_lock"
          /\ model_lock = 0
          /\ IF model_loaded /\ model_instance # None
             THEN /\ last_used_time' = now
                  /\ Goto(t, tret[t])
             ELSE /\ Goto(t, "loading")
                  /\ UNCHANGED last_used_time
          /\ UNCHANGED <<model_instance, model_loaded, loads>>
       \/ /\ tpc[t] = "loading"
          /\ IF outcome = "ok"
             THEN /\ model_instance' = 1
                  /\ model_loaded' = TRUE
                  /\ last_used_time' = now
                  /\ loads' = loads + 1
                  /\ Goto(t, tret[t])
             ELSE /\ Goto(t, "raised_load")
                  /\ UNCHANGED <<model_instance, model_loaded, last_used_time,
                                 loads>>
    /\ UNCHANGED <<service, model_lock, tret>>
    /\ UNCHANGED <<collections, redis, now, embedding, wvars, rvars, avars, kvars>>

\* the call of a thread is over, with a value or with an exception
Return(t) ==
    /\ tpc[t] \in {"returned", "raised_load", "raised_uninit", "raised_torn"}
    /\ Goto(t, "idle")
    /\ tret' = [tret EXCEPT ![t] = "idle"]
    /\ UNCHANGED <<service, model_instance, model_loaded, model_lock,
                   last_used_time, loads>>
    /\ UNCHANGED <<collections, redis, now, embedding, wvars, rvars, avars, kvars>>

\* one step of a thread of the process
ModelStep(t, outcomes) ==
    \/ Embed(t)
    \/ LocalEmbed(t)
    \/ \E outcome \in outcomes : InitModel(t, outcome)
    \/ MsEmbed(t)
    \/ \E outcome \in outcomes : LoadModel(t, outcome)
    \/ CheckAndUnloadIfIdle(t)
    \/ UnloadModel(t)
    \/ Return(t)

(***************************************************************************)
(* _keyword_search, one scroll request at a time.  The store is the        *)
(* environment here: it answers each request with a page of points and a   *)
(* cursor, whatever the collection holds (a collection of any size, or one *)
(* that grows while it is scanned).                                        *)
(***************************************************************************)
\* the points the store hands out: one that matches nothing of the query
\* "api", one that matches in its content, one that matches in its title
ScanChunks == <<MkChunk(<<"#", " ", "a", "b">>, EmptyDict), MkChunk(<<"#", " ", "a", "p", "i">>, EmptyDict)>>

MissPoint == BatchPoints(0, 1, PageTwo, ScanChunks, 0)[1]

LowPoint == BatchPoints(0, 1, PageTwo, ScanChunks, 0)[2]

HighPoint == BatchPoints(0, 1, PageApi, ScanChunks, 1)[1]

ScrollPages == {<<>>, <<MissPoint>>, <<LowPoint, HighPoint, LowPoint>>}

\* the candidate limits of the searches
ScanLimits == {1, 2}

\* the cursors of the store: none, or the id of the next point
Cursors == {None, 1}

\* keywords_lower = [k.lower() for k in keywords]
KeywordsLower(query) == [i \in 1..Len(Keywords(query)) |-> Lower(Keywords(query)[i])]

\* _keyword_search, lines 104-137: the keywords of the query; without one the
\* search returns [] before any request
StartKeywordSearch(query, item_id, top_k) ==
    /\ kpc \in {"idle", "returned"}
    /\ kreq' = [query |-> query, item_id |-> item_id, top_k |-> top_k]
    /\ kpc' = IF Keywords(query) = <<>> THEN "returned" ELSE "scroll"
    /\ kcount' = 0
    /\ kresults' = <<>>
    /\ kret' = <<>>
    /\ krequests' = 0
    /\ klast' = [points |-> <<>>, next_page_offset |-> None]
    /\ UNCHANGED <<collections, redis, now, embedding, mvars, wvars, rvars, avars>>

\* the loop never tests its page counter
KeywordScrollUncapped(page, next_page_offset, outcome) ==
    /\ kpc = "scroll"
    /\ krequests' = krequests + 1
    /\ klast' = [points |-> page, next_page_offset |-> next_page_offset]
    /\ \E results1 \in {ScanPage(page, 1, kresults, Lower(kreq.query), KeywordsLower(kreq.query), kreq.top_k)} :
       LET leaves == \/ page = <<>>
                     \/ Len(results1) >= kreq.top_k * 10
                     \/ next_page_offset = None
       IN  IF outcome = "fail"
           THEN /\ kpc' = "returned"
                /\ kresults' = kresults
                /\ kret' = <<>>
                /\ kcount' = kcount
           ELSE IF leaves
           THEN /\ kpc' = "returned"
                /\ kresults' = results1
                /\ kret' = Take(SortDesc(results1), kreq.top_k)
                /\ kcount' = kcount
           ELSE /\ kpc' = "scroll"
                /\ kresults' = results1
                /\ kret' = kret
                /\ kcount' = kcount + 1
    /\ UNCHANGED <<collections, redis, now, embedding, mvars, wvars, rvars, avars, kreq>>

\* _keyword_search, lines 138-214: one pass of the while loop, from
\* client.scroll to the next test of the loop condition, and what follows
\* the loop when it is left: the sort and results[:top_k].  An exception of
\* the store is caught and the search returns [].
KeywordScroll(page, next_page_offset, outcome) ==
    /\ kpc = "scroll"
    /\ krequests' = krequests + 1
    /\ klast' = [points |-> page, next_page_offset |-> next_page_offset]
    /\ \E results1 \in {ScanPage(page, 1, kresults, Lower(kreq.query), KeywordsLower(kreq.query), kreq.top_k)} :
       LET leaves == \/ page = <<>>
                     \/ Len(results1) >= kreq.top_k * 10
                     \/ next_page_offset = None
       IN  IF outcome = "fail"
           THEN /\ kpc' = "returned"
                /\ kresults' = kresults
                /\ kret' = <<>>
                /\ kcount' = kcount
           ELSE IF leaves
           THEN /\ kpc' = "returned"
                /\ kresults' = results1
                /\ kret' = Take(SortDesc(results1), kreq.top_k)
                /\ kcount' = kcount
           ELSE IF kcount + 1 < max_scroll_pages
           THEN /\ kpc' = "scroll"
                /\ kresults' = results1
                /\ kret' = kret
                /\ kcount' = kcount + 1
           ELSE /\ kpc' = "returned"
                /\ kresults' = results1
                /\ kret' = Take(SortDesc(results1), kreq.top_k)
                /\ kcount' = kcount + 1
    /\ UNCHANGED <<collections, redis, now, embedding, mvars, wvars, rvars, avars, kreq>>

(***************************************************************************)
(* Specifications.                                                         *)
(***************************************************************************)
\* Indexing and deleting pages of one project: one worker.
IndexInputs == {<<1, PageTwo>>, <<1, PageBlank>>, <<1, PageMeta>>, <<1, PageApi>>}

NextIndex ==
    \/ \E c \in IndexInputs : StartIndex(1, c[1], c[2])
    \/ StartDelete(1, 1, 10)
    \/ UpsertStep(1, CallOutcomes, {"ok"})

SpecIndex == Init /\ [][NextIndex]_vars

\* Retrieval from one project while its pages are indexed.  The calls of the
\* worker to the vector store succeed here (their failures are part of
\* SpecIndex); those of retrieve succeed or fail.
RetrieveInputs == {<<1, PageTwo>>, <<1, PageApi>>, <<1, PageMyApi>>}

Next ==
    \/ \E c \in RetrieveInputs : StartIndex(1, c[1], c[2])
    \/ UpsertStep(1, {"ok"}, {"ok"})
    \/ ReaderStep({QueryApi}, {1}, CallOutcomes)

Spec == Init /\ [][Next]_vars

\* Two projects: indexing, deleting, rebuilding and retrieval.  The calls of
\* the worker to the vector store succeed here; their failures are part of
\* SpecIndex.
IsoInputs == {<<1, PageApi>>, <<2, PageApi>>}

NextIso ==
    \/ \E c \in IsoInputs : StartIndex(1, c[1], c[2])
    \/ \E item_id \in Items : StartDelete(1, item_id, 11)
    \/ UpsertStep(1, {"ok"}, {"ok"})
    \/ RebuildStep(1, {<<2, <<PageBlank, PageMyApi>> >>}, {"ok"})
    \/ ReaderStep({QueryApi}, Items, CallOutcomes)

SpecIso == Init /\ [][NextIso]_vars

\* the operations that touch the index of one project, while time passes
NextAccess ==
    \/ StartIndex(1, 1, PageApi)
    \/ UpsertStep(1, {"ok"}, {"ok"})
    \/ RebuildStep(1, {<<1, <<PageApi>> >>}, {"ok"})
    \/ ChatRequest(1, "ok")
    \/ StatusStep({1}, CallOutcomes, {"ok"})
    \/ Tick

SpecAccess == Init /\ [][NextAccess]_vars

\* the clean-up operations on the collections of two projects and of other
\* users of the vector store; tasks and requests come one after the other,
\* and time passes between them
NextCleanup ==
    \/ AtRest /\ \E item_id \in Items : StartIndex(1, item_id, PageApi)
    \/ UpsertStep(1, {"ok"}, {"ok"})
    \/ Collect(1)
    \/ AtRest /\ \E n \in ForeignNames : ForeignCreate(n)
    \/ /\ wpc[1] = "idle"
       /\ apc # "returned"
       /\ CleanupStep(Items, {{1}}, {1}, CallOutcomes, CallOutcomes)
    \/ Answer
    \/ AtRest /\ Tick

SpecCleanup == Init /\ [][NextCleanup]_vars

\* a list with more pages than the answer of a rebuild lists failures
ManyPages == [i \in 1..(max_error_pages + 2) |-> PageApi]

RebuildInputs == {<<1, ManyPages>>, <<1, <<PageBlank, PageMyApi, PageApi>> >>}

\* rebuilds of one project, every call of the vector store failing or not
NextRebuild ==
    \/ RebuildStep(1, RebuildInputs, CallOutcomes)
    \/ UpsertStep(1, CallOutcomes, {"ok"})

SpecRebuild == Init /\ [][NextRebuild]_vars

\* one process holding a local model, its threads embedding texts and
\* running the idle check, a load failing or not
NextModel ==
    \/ \E impl \in Services, outcome \in CallOutcomes : Construct(impl, outcome)
    \/ \E t \in Threads : ModelStep(t, CallOutcomes)
    \/ Tick

SpecModel == Init /\ [][NextModel]_vars

\* index_document tasks over documents of every shape the chunker tells
\* apart, every call of a store succeeding
NextChunk ==
    \/ \E page \in ChunkPages : StartIndex(1, 1, page)
    \/ UpsertStep(1, {"ok"}, {"ok"})

SpecChunk == Init /\ [][NextChunk]_vars

\* rebuilds of one project by two workers at once, a call of the vector
\* store failing or not, beside requests for the status of the project
NextOverlap ==
    \/ \E w \in Workers : RebuildStep(w, {<<1, <<PageApi>> >>}, {"ok"})
    \/ \E w \in Workers : UpsertStep(w, CallOutcomes, {"ok"})
    \/ StartStatus(1, "ok")
    \/ StatusTask("ok", "ok")
    \/ StatusCollections("ok")
    \/ StatusCount("ok")

SpecOverlap == Init /\ [][NextOverlap]_vars

\* pages 10 and 11 of a project indexed one by one, and rebuilds of the
\* project whose list has page 10 with blank content, page 12, and not
\* page 11; a call of the vector store failing or not
NextFrame ==
    \/ \E page \in {PageOne, PageApi} : StartIndex(1, 1, page)
    \/ RebuildStep(1, {<<1, <<PageBlank, PageMyApi>> >>}, {"ok"})
    \/ UpsertStep(1, CallOutcomes, {"ok"})

SpecFrame == Init /\ [][NextFrame]_vars

\* cleanup_unused_indexes beside the tasks of a worker that index and
\* rebuild the project, every call of a store succeeding; time passes
\* between the tasks and the requests
NextRace ==
    \/ AtRest /\ StartIndex(1, 1, PageApi)
    \/ RebuildStep(1, {<<1, <<PageApi>> >>}, {"ok"})
    \/ UpsertStep(1, {"ok"}, {"ok"})
    \/ Collect(1)
    \/ StartUnused(1, "ok")
    \/ UnusedVisit("ok")
    \/ UnusedDelete("ok")
    \/ UnusedForget("ok")
    \/ Answer
    \/ AtRest /\ Tick

SpecRace == Init /\ [][NextRace]_vars

\* One keyword search at a time against a store that answers as it likes.
NextScan ==
    \/ \E query \in {QueryApi, <<"a">>}, top_k \in ScanLimits : StartKeywordSearch(query, 1, top_k)
    \/ \E page \in ScrollPages, next_page_offset \in Cursors, outcome \in CallOutcomes : KeywordScroll(page, next_page_offset, outcome)

SpecScan == Init /\ [][NextScan]_vars

\* client.scroll is a blocking call of the search: every request is answered
\* or raises, so a search that waits for a page goes on.
SpecScanLive == SpecScan /\ WF_vars(\E page \in ScrollPages, next_page_offset \in Cursors, outcome \in CallOutcomes : KeywordScroll(page, next_page_offset, outcome))

(***************************************************************************)
(* Properties of upsert_document.                                          *)
(***************************************************************************)
\* the points of the page of worker w's call
CallPoints(w) ==
    PagePoints(PointsOf(collections, wtask[w].item_id), CallPage(w).page_id)

\* upsert_document, called by index_document_task, has returned normally
UpsertReturned(w) == wpc[w] = "returned" /\ wtask[w].kind = "index"

\* C1: when upsert_document has returned normally, the points of the page are
\* one point per chunk of the content of this call (none when the content is
\* blank), whether the delete step succeeded or not.
C1_UpsertReplaces ==
    \A w \in Workers :
        UpsertReturned(w) =>
            LET chunks == IF IsBlank(CallPage(w).page_content) THEN <<>>
                          ELSE ChunksOf[CallPage(w)]
                stored == CallPoints(w)
            IN  /\ Len(stored) = Len(chunks)
                /\ \A i \in 1..Len(chunks) :
                      \E j \in 1..Len(stored) :
                          stored[j].payload.chunk_content = chunks[i].content

\* C2: a call of upsert_document that repeats the call before it leaves the
\* page with as many points as the first of the two calls left.
C2_UpsertIdempotent ==
    \A w \in Workers :
        UpsertReturned(w) => \A count \in hist[w] : Len(CallPoints(w)) = count

\* what isolation lets a step do to the collection of item_id
CollectionView(colls, item_id) ==
    IF Exists(colls, item_id) THEN <<TRUE, PointsOf(colls, item_id)>>
    ELSE <<FALSE, <<>> >>

\* C3: a step that creates the collection of a project or changes its points
\* is a step of a task on that project, and a retrieval on a project returns
\* only points stored for that project.
C3_Isolation ==
    /\ [][\A item_id \in Items :
            CollectionView(collections', item_id) # CollectionView(collections, item_id)
            => \E w \in Workers :
                  /\ wtask[w].item_id = item_id
                  /\ <<wpc'[w], wbatch'[w]>> # <<wpc[w], wbatch[w]>>]_vars
    /\ [](rpc = "returned" =>
             \A i \in 1..Len(rres) : rres[i].metadata.item_id = rreq.item_id)

\* a retrieval on project 2 has returned a point while project 1 holds
\* points written by the task that has just returned
C3_Witness ==
    /\ rpc = "returned" /\ rreq.item_id = 2 /\ rres # <<>>
    /\ wpc[1] = "returned" /\ wtask[1].item_id = 1 /\ wtask[1].kind = "index"
    /\ PointsOf(collections, 1) # <<>>
    /\ PointsOf(collections, 2) # <<>>

\* C4: no two points of a collection with the same page_id have the same
\* chunk_id.
C4_ChunkIdsUnique ==
    \A item_id \in Items :
        LET points == PointsOf(collections, item_id)
        IN  \A i, j \in 1..Len(points) :
                (i # j /\ points[i].payload.page_id = points[j].payload.page_id)
                => points[i].payload.chunk_id # points[j].payload.chunk_id

(***************************************************************************)
(* Properties of retrieve.                                                 *)
(***************************************************************************)
\* (page_id, chunk index) of a returned record and of a search result
RecordKey(record) == <<record.page_id, record.metadata.chunk_id>>

HitKey(result) == <<result.payload.page_id, result.payload.chunk_id>>

NonIncreasing(records) ==
    \A i \in 1..(Len(records) - 1) : records[i].relevance >= records[i + 1].relevance

\* C5: retrieve returns at most top_k records, in non-increasing order of
\* relevance.
C5_TopKSorted ==
    rpc = "returned" => Len(rres) <= rreq.top_k /\ NonIncreasing(rres)

\* both searches found something, more than top_k in all, and the records
\* returned differ in relevance
C5_Witness ==
    /\ rpc = "returned" /\ rhits # <<>> /\ rkw # <<>>
    /\ Len(rhits) > rreq.top_k
    /\ Len(rres) = rreq.top_k
    /\ \E i \in 1..(Len(rres) - 1) : rres[i].relevance > rres[i + 1].relevance

\* C6: a step of retrieve that queries the vector store for a project that
\* has no collection does not raise, and the call returns the empty list.
C6_MissingCollectionEmpty ==
    [][(rpc = "query" /\ ~Exists(collections, rreq.item_id) /\ rpc' # rpc)
       => (rpc' # "raised" /\ rres' = <<>>)]_vars

\* C7: no two returned records have the same (page_id, chunk index), and a
\* record whose chunk is among the vector hits has the score derived from
\* such a hit.
C7_NoDuplicateKeys ==
    rpc = "returned" =>
        /\ \A i, j \in 1..Len(rres) :
              i # j => RecordKey(rres[i]) # RecordKey(rres[j])
        /\ \A i \in 1..Len(rres) :
              (\E h \in 1..Len(rhits) : HitKey(rhits[h]) = RecordKey(rres[i]))
              => \E h \in 1..Len(rhits) :
                    /\ HitKey(rhits[h]) = RecordKey(rres[i])
                    /\ rres[i].relevance \in
                          {rhits[h].score,
                           Min((rhits[h].score * 15) \div 10, 1000),
                           Min((rhits[h].score * 12) \div 10, 1000)}

\* a returned record whose chunk was found by both searches
C7_Witness ==
    /\ rpc = "returned"
    /\ \E i \in 1..Len(rres), h \in 1..Len(rhits), k \in 1..Len(rkw) :
          /\ HitKey(rhits[h]) = RecordKey(rres[i])
          /\ HitKey(rkw[k]) = RecordKey(rres[i])

\* C8: of two vector hits with the same similarity, one with a page title
\* equal to the query and one without, the first has the strictly higher
\* relevance and comes strictly before the other in the list returned.
C8_TitleBoost ==
    rpc = "returned" =>
        \A a, b \in 1..Len(rhits) :
            (/\ rhits[a].score = rhits[b].score
             /\ rhits[a].payload.page_title = rreq.query
             /\ rhits[b].payload.page_title # rreq.query)
            => \A i, j \in 1..Len(rres) :
                  (RecordKey(rres[i]) = HitKey(rhits[a])
                   /\ RecordKey(rres[j]) = HitKey(rhits[b]))
                  => (rres[i].relevance > rres[j].relevance /\ i < j)

IsPrefix(s, t) == Len(s) <= Len(t) /\ SubSeq(t, 1, Len(s)) = s

\* C9: on the same collection and for the same query, the list returned for
\* top_k = k1 is a prefix of the list returned for top_k = k2 > k1.
C9_Monotone ==
    \A item_id \in Items :
        Exists(collections, item_id) =>
            \A query \in Queries, k1, k2 \in 1..MaxTopK :
                k1 < k2 =>
                    IsPrefix(retrieve(PointsOf(collections, item_id), embedding,
                                      query, k1),
                             retrieve(PointsOf(collections, item_id), embedding,
                                      query, k2))

\* the keys of the keyword results
KeywordKeys == {HitKey(rkw[k]) : k \in 1..Len(rkw)}

\* the relevance of a keyword result that no vector hit stands for, given
\* the test that tells whether its page title matches the query
FallbackScore(result, TitleTest(_)) ==
    IF TitleTest(result.payload) THEN 800 ELSE (result.score * 7) \div 10

\* what retrieve returns when only the keyword search found something: the
\* keyword matches, each once, the best top_k of them in descending order
FallbackHolds(TitleTest(_)) ==
    (rpc = "returned" /\ rhits = <<>> /\ rkw # <<>>) =>
        /\ Len(rres) = Min(rreq.top_k, Cardinality(KeywordKeys))
        /\ NonIncreasing(rres)
        /\ \A i, j \in 1..Len(rres) :
              i # j => RecordKey(rres[i]) # RecordKey(rres[j])
        /\ \A i \in 1..Len(rres) :
              \E k \in 1..Len(rkw) :
                  /\ HitKey(rkw[k]) = RecordKey(rres[i])
                  /\ rres[i].relevance = FallbackScore(rkw[k], TitleTest)
        /\ \A k \in 1..Len(rkw) :
              (\A i \in 1..Len(rres) : HitKey(rkw[k]) # RecordKey(rres[i]))
              => FallbackScore(rkw[k], TitleTest) <= rres[Len(rres)].relevance

TitleIsQuery(payload) == payload.page_title = rreq.query

TitleHoldsOrIsHeldByQuery(payload) ==
    LET page_title == Lower(payload.page_title)
        query_lower == Lower(rreq.query)
    IN  /\ page_title # <<>>
        /\ (Contains(page_title, query_lower) \/ Contains(query_lower, page_title))

AccessTime(item_id) == RedisGet(redis, get_access_time_key(item_id))

RefreshedSince(item_id, start) ==
    /\ AccessTime(item_id) # {}
    /\ \A t \in AccessTime(item_id) : t >= start

\* C11: when an operation that reads or writes the index of a project
\* returns (an index_document task, also on a collection that exists
\* already, a rebuild, a chat request, a status request), the recorded
\* access time of the project is not older than the start of the operation.
C11_AccessRefreshed ==
    [][/\ \A w \in Workers :
              (/\ wpc[w] # "returned"
               /\ wpc'[w] = "returned"
               /\ wtask'[w].kind \in {"index", "rebuild"})
              => RefreshedSince(wtask[w].item_id, wstart[w])'
       /\ (/\ apc # "returned"
           /\ apc' = "returned"
           /\ areq'.op \in {"chat", "status"})
          => RefreshedSince(areq.item_id, areq.start)']_vars

\* the collections that the request being served has deleted
DeletedNames == ares.names_before \ DOMAIN collections

\* the operations that delete collections
CleanupOps == {"delete_item", "cleanup_orphaned", "cleanup_unused"}

\* C12: when delete_item, cleanup_orphaned_collections or
\* cleanup_unused_indexes has returned, none of its calls having failed, no
\* project whose collection it deleted has an access-time record; and while
\* nothing is running, every access-time record written when a collection
\* was created belongs to a collection that exists.
C12_RecordGoesWithCollection ==
    /\ (apc = "returned" /\ areq.op \in CleanupOps /\ ~ares.failed)
       => \A n \in DeletedNames : \A item_id \in ItemIdOf(n) :
              AccessTime(item_id) = {}
    /\ Quiescent
       => \A item_id \in Items :
              AccessTime(item_id) # {} => Exists(collections, item_id)

\* the collections that the step being taken deletes
Dropped == DOMAIN collections \ (DOMAIN collections)'

\* cleanup_unused_indexes is running
UnusedRuns == areq.op = "cleanup_unused" /\ apc # "returned"

\* cleanup_unused_indexes has returned and none of its calls has failed
UnusedDone == apc = "returned" /\ areq.op = "cleanup_unused" /\ ~ares.failed

\* the collections of projects, among those there were at the start of the
\* request, that are still there
Kept == {n \in ares.names_before \cap DOMAIN collections : ItemIdOf(n) # {}}

\* those of them whose project has no access-time record
Unrecorded ==
    {n \in Kept : \A item_id \in ItemIdOf(n) : AccessTime(item_id) = {}}

\* C13: every collection that cleanup_unused_indexes deletes has the prefix
\* and a project id behind it, and its project has an access-time record;
\* when the operation returns, none of its calls having failed,
\* skipped_count is the number of collections of projects without a record.
C13_UnusedKeepsUnrecorded ==
    [][/\ UnusedRuns
          => \A n \in Dropped :
                 /\ StartsWith(n, collection_prefix)
                 /\ ItemIdOf(n) # {}
                 /\ \A item_id \in ItemIdOf(n) : AccessTime(item_id) # {}
       /\ UnusedDone' => (ares.skipped_count = Cardinality(Unrecorded))']_vars

\* cleanup_unused_indexes has returned after it has skipped the collection of
\* a project without a record and deleted another one, in a store that also
\* holds a collection without the prefix and one without a project id
C13_Witness ==
    /\ UnusedDone
    /\ ares.skipped_count >= 1
    /\ ares.deleted_count >= 1
    /\ Unrecorded # {}
    /\ ForeignNames \subseteq ares.names_before
    /\ ForeignNames \subseteq DOMAIN collections

DeletedIds == UNION {ItemIdOf(n) : n \in DeletedNames}

\* C14: cleanup_unused_indexes(days), alone and with no failing call, deletes
\* a collection of a project only if the project's recorded access time is
\* earlier than now - days; when it returns, no collection of a project with
\* such a record is left, the projects of the deleted collections have no
\* record, deleted_count is the number of deleted collections, and
\* deleted_items lists their project ids, 50 at most.
C14_UnusedDeletesExpired ==
    [][/\ (UnusedRuns /\ ~ares.failed)
          => \A n \in Dropped : \A item_id \in ItemIdOf(n) :
                 \E t \in AccessTime(item_id) : t < now - areq.days * day
       /\ UnusedDone'
          => (/\ \A n \in Kept : \A item_id \in ItemIdOf(n) :
                     \A t \in AccessTime(item_id) : ~(t < now - areq.days * day)
              /\ \A item_id \in DeletedIds : AccessTime(item_id) = {}
              /\ ares.deleted_count = Cardinality(DeletedNames)
              /\ Len(ares.deleted_items) <= max_deleted_items
              /\ Len(ares.deleted_items) = Min(ares.deleted_count, max_deleted_items)
              /\ {ares.deleted_items[i] : i \in 1..Len(ares.deleted_items)}
                     \subseteq DeletedIds)']_vars

\* cleanup_unused_indexes has returned after it has deleted the collection of
\* a project last accessed before now - days and kept the collection of a
\* project accessed later
C14_Witness ==
    /\ UnusedDone
    /\ ares.deleted_count >= 1
    /\ ares.deleted_items # <<>>
    /\ \E n \in Kept : \E item_id \in ItemIdOf(n) : AccessTime(item_id) # {}

\* cleanup_orphaned_collections has returned and none of its calls has failed
OrphanedDone ==
    apc = "returned" /\ areq.op = "cleanup_orphaned" /\ ~ares.failed

\* the collections under the prefix there were at the start of the request
PrefixedBefore == {n \in ares.names_before : StartsWith(n, collection_prefix)}

ValidNames == {get_collection_name(item_id) : item_id \in areq.ids}

\* the part of the clean-up of orphans that is about the deletions:
\* cleanup_orphaned_collections, when none of its calls
\* fails, deletes exactly the collections under the prefix that are not the
\* collection of a valid id, and orphaned_collections = deleted_count = the
\* number of deleted collections.
OrphanedDeletions ==
    OrphanedDone
    => /\ DeletedNames = PrefixedBefore \ ValidNames
       /\ ares.orphaned_collections = Cardinality(DeletedNames)
       /\ ares.deleted_count = Cardinality(DeletedNames)

\* C15: cleanup_orphaned_collections, when none of its calls fails, deletes
\* exactly the collections under the prefix that are not the collection of a
\* valid id, and returns total_collections = the number of collections under
\* the prefix before the call, valid_collections = the number of those that
\* are valid, orphaned_collections = deleted_count = the number deleted, so
\* that total = valid + orphaned.
C15_OrphanedCounts ==
    OrphanedDone
    => /\ DeletedNames = PrefixedBefore \ ValidNames
       /\ ares.total_collections = Cardinality(PrefixedBefore)
       /\ ares.valid_collections = Cardinality(PrefixedBefore \cap ValidNames)
       /\ ares.orphaned_collections = Cardinality(DeletedNames)
       /\ ares.deleted_count = Cardinality(DeletedNames)
       /\ ares.total_collections
              = ares.valid_collections + ares.orphaned_collections

(***************************************************************************)
(* Properties of get_status.                                               *)
(***************************************************************************)
StatusDone == apc = "returned" /\ areq.op = "status"

\* C16: a status request always returns (no step of get_status raises), with
\* one of three statuses: `indexing` if and only if _check_indexing_task
\* has detected a task of the project, whether the collection was found or
\* not and whether the calls of the vector store failed or not; otherwise
\* `indexed` if and only if the collection was found and its points were
\* counted; otherwise `not_indexed`.
C16_StatusOfThree ==
    /\ areq.op = "status"
       => apc \in {"status_task", "status_collections", "status_count",
                   "status_fallback", "returned"}
    /\ StatusDone
       => /\ ares.status \in {"indexing", "indexed", "not_indexed"}
          /\ ares.status = "indexing" <=> ares.is_indexing
          /\ ~ares.is_indexing
             => (ares.status = "indexed" <=> (ares.found /\ ares.counted))
          /\ ares.indexed <=> (ares.found /\ ares.counted)

\* a status request has answered `indexing` while a rebuild of the project
\* was running and the collection existed, its points counted
C16_Witness ==
    /\ StatusDone
    /\ ares.status = "indexing"
    /\ ares.found
    /\ ares.counted

(***************************************************************************)
(* Properties of delete_document and ensure_collection.                    *)
(***************************************************************************)
\* delete_document, called by the route /index/delete, has returned
DeleteReturned(w) == wpc[w] = "returned" /\ wtask[w].kind = "delete"

\* worker w takes a step of delete_document called by the route
DeleteSteps(w) ==
    /\ wtask[w].kind = "delete"
    /\ wpc[w] \in {"delete_check", "delete_exec"}
    /\ wpc'[w] # wpc[w]

EnsureSteps(w, pc) == wpc[w] = pc /\ wpc'[w] # pc

\* ensure_collection has returned to upsert_document or to rebuild_index_task
EnsureLeft(w) == wpc'[w] \in {"record_access", "delete_check"}

\* C18: ensure_collection changes nothing when the collection is present: it
\* does not go on to create it, the collections with their points and the
\* access-time records stay as they are.  When the collection is absent and
\* the creation succeeds, the collection is there, empty, every other
\* collection is as before and the access time of the project is the time
\* of the call; when the creation fails nothing has changed.  After
\* ensure_collection has returned, the project has its collection.
C18_EnsureIdempotent ==
    [][\A w \in Workers :
          LET item_id == wtask[w].item_id
              name == get_collection_name(item_id)
          IN  /\ EnsureSteps(w, "ensure_check")
                 => /\ collections' = collections
                    /\ redis' = redis
                    /\ Exists(collections, item_id) => wpc'[w] # "ensure_create"
              /\ EnsureSteps(w, "ensure_create")
                 => IF EnsureLeft(w)
                    THEN /\ name \notin DOMAIN collections
                         /\ (DOMAIN collections)' = DOMAIN collections \cup {name}
                         /\ collections'[name] = <<>>
                         /\ \A n \in DOMAIN collections :
                                collections'[n] = collections[n]
                         /\ AccessTime(item_id)' = {now}
                    ELSE collections' = collections /\ redis' = redis
              /\ ((EnsureSteps(w, "ensure_check") \/ EnsureSteps(w, "ensure_create"))
                  /\ EnsureLeft(w))
                 => name \in (DOMAIN collections)']_vars

\* ensure_collection has returned for a project whose collection was there,
\* created a day or more before: the points are there and the access time
\* is still that of the creation
C18_Witness ==
    \E w \in Workers :
        /\ wpc[w] = "delete_check"
        /\ wtask[w].kind = "index"
        /\ PointsOf(collections, wtask[w].item_id) # <<>>
        /\ \E t \in AccessTime(wtask[w].item_id) : t < wstart[w]

(***************************************************************************)
(* Properties of the failures of upsert_document and rebuild_index_task.   *)
(***************************************************************************)
\* the contents of the chunks of worker w's page that belong to the batches
\* before the one that starts at wbatch[w]
StoredBatches(w) ==
    LET chunks == ChunksOf[CallPage(w)]
    IN  {chunks[i].content : i \in 1..Min(wbatch[w], Len(chunks))}

\* C19: when the embedding or the write of the batch that starts at
\* batch_start fails in upsert_document, the exception leaves
\* upsert_document at once, and the points of the page are then exactly the
\* points of the batches before it: the points the page had before the call
\* are gone and nothing of this batch or of a later one is stored.
C19_BatchFailure ==
    [][\A w \in Workers :
          (wpc[w] = "insert" /\ wpc'[w] # "insert" /\ wpc'[w] = RaisedPc(w)
           /\ wtask[w].kind = "index")
          => /\ wpc'[w] = "raised"
             /\ Len(CallPoints(w)') = Min(wbatch[w], Len(ChunksOf[CallPage(w)]))
             /\ {CallPoints(w)'[j].payload.chunk_content :
                    j \in 1..Len(CallPoints(w)')} = StoredBatches(w)]_vars

RebuildReturned(w) == wpc[w] = "returned" /\ wtask[w].kind = "rebuild"

\* upsert_document, called for a page of a rebuild, raises in this step
PageFails(w) ==
    /\ wtask[w].kind = "rebuild"
    /\ wpage[w] > 0
    /\ wpc[w] \in {"ensure_check", "ensure_create", "insert"}
    /\ wpc'[w] \notin {"ensure_check", "ensure_create", "delete_check", "insert"}
    /\ wres'[w].error = wres[w].error + 1

\* C20: in rebuild_index_task a page whose indexing fails is counted as an
\* error and the task goes on with the next page; the task returns only
\* after the last page of its list, with success + skipped + error = the
\* number of pages, and with a list of failed pages that holds the first 20
\* of them at most.
C20_RebuildGoesOn ==
    [][\A w \in Workers :
          /\ PageFails(w) => wpc'[w] = "next_page"
          /\ RebuildReturned(w)'
             => (/\ wpage[w] = Len(wtask[w].pages)
                 /\ wres[w].success + wres[w].skipped + wres[w].error
                        = Len(wtask[w].pages)
                 /\ Len(wres[w].error_pages) <= max_error_pages
                 /\ Len(wres[w].error_pages)
                        = Min(wres[w].error, max_error_pages))']_vars

\* a rebuild has returned after more than 20 of its pages have failed and
\* one of the pages after a failed page was indexed
C20_Witness ==
    \E w \in Workers :
        /\ RebuildReturned(w)
        /\ wres[w].error > max_error_pages
        /\ wres[w].success >= 1
        /\ Len(wres[w].error_pages) = max_error_pages
        /\ PointsOf(collections, wtask[w].item_id) # <<>>

(***************************************************************************)
(* Properties of the local embedding model.                                *)
(***************************************************************************)
\* the threads that are constructing the model or tearing it down
InProgress == {t \in Threads : tpc[t] \in {"init_load", "loading", "unloading"}}

Unloads ==
    /\ model_instance # None
    /\ model_instance' = None
    /\ \E u \in Threads : tpc[u] = "unloading"

\* the embed call of thread t has found the model loaded and has not used the
\* handle yet
MidUse(t) == tpc[t] \in {"local_guard", "encode", "ms_touch", "ms_encode"}

Chunked(w) == wtask[w].kind = "index" /\ wpc[w] = "insert"

\* the lines of a text
LinesOf(text) == SplitOn(text, <<NL>>)

\* the lines of the contents of the chunks
ChunkLines(chunks) ==
    UNION {{LinesOf(chunks[k].content)[i] : i \in 1..Len(LinesOf(chunks[k].content))} :
              k \in 1..Len(chunks)}

\* C22: every line of the document (the empty lines that separate paragraphs
\* aside) is a line of the content of some chunk, on the regular and on the
\* API path, the text before the first interface header included
C22_ChunkCoverage ==
    \A w \in Workers :
        Chunked(w) =>
            LET lines == LinesOf(CallPage(w).page_content)
            IN  \A i \in 1..Len(lines) :
                    lines[i] # <<>> => lines[i] \in ChunkLines(ChunksOf[CallPage(w)])

\* C23: a document that is not empty gets no chunk with empty content
C23_NoEmptyChunk ==
    \A w \in Workers :
        (Chunked(w) /\ CallPage(w).page_content # <<>>) =>
            \A k \in 1..Len(ChunksOf[CallPage(w)]) :
                ChunksOf[CallPage(w)][k].content # <<>>

\* the text has the address line and a section of request parameters
HasMarker(text) ==
    /\ Contains(text, MarkerLine)
    /\ Contains(text, <<NL, "#", "#", " ">> \o QingQiuCanShu)

\* the metadata of the chunk says chunk_type = "api"
IsApiChunk(c) ==
    "chunk_type" \in DOMAIN c.metadata /\ c.metadata["chunk_type"] = "api"

\* C24: a document with the address line and a section of request parameters
\* is classified as an API document although its page_type is "regular", and
\* some chunk of it is tagged chunk_type = "api", with or without a level-1
\* header before the address line
C24_MarkerGivesApiChunk ==
    \A w \in Workers :
        (Chunked(w) /\ CallPage(w).page_type = "regular"
                    /\ HasMarker(CallPage(w).page_content)) =>
            /\ detect_api_document(CallPage(w).page_content, "regular")
            /\ \E k \in 1..Len(ChunksOf[CallPage(w)]) :
                  IsApiChunk(ChunksOf[CallPage(w)][k])

\* C30: a chunk is longer than max_chunk_size only if it is one single
\* paragraph; a chunk that begins with the paragraph carried over from the
\* chunk before it keeps within the limit
C30_ChunkWithinLimit ==
    \A w \in Workers :
        Chunked(w) =>
            \A k \in 1..Len(ChunksOf[CallPage(w)]) :
                \/ Len(ChunksOf[CallPage(w)][k].content) <= max_chunk_size
                \/ ~Contains(ChunksOf[CallPage(w)][k].content, <<NL, NL>>)

(***************************************************************************)
(* Properties of the task marker of rebuild_index_task.                    *)
(***************************************************************************)
\* the marker ai_indexing_task:<item_id> is in the key-value store
MarkerPresent(item_id) == RedisExists(redis, get_indexing_task_key(item_id))

\* get_status makes its test for a running task
StatusReads == apc = "status_task" /\ apc' = "status_collections"

\* C26: the marker of a project is present exactly while some rebuild of the
\* project has started and not finished, two overlapping rebuilds included,
\* and a get_status that makes its test during a rebuild reports `indexing`
C26_MarkerWhileRebuilding ==
    /\ [](\A item_id \in Items : RebuildRunning(item_id) <=> MarkerPresent(item_id))
    /\ [][(StatusReads /\ RebuildRunning(areq.item_id))
              => (ares'.is_indexing /\ ares'.status = "indexing")]_vars

(***************************************************************************)
(* Properties of the pages that rebuild_index_task leaves alone.           *)
(***************************************************************************)
\* the page ids of the input pages
PageIds == {page.page_id : page \in PageInputs}

\* worker w is inside rebuild_index_task
Rebuilds(w) == wtask[w].kind = "rebuild" /\ ~Free(w)

\* the list of worker w's rebuild has the page with content that is not blank
ListedWithContent(w, page_id) ==
    \E i \in 1..Len(wtask[w].pages) :
        /\ wtask[w].pages[i].page_id = page_id
        /\ ~IsBlank(wtask[w].pages[i].page_content)

\* the rebuild of worker w comes to a page of its list with blank content
MeetsBlank(w) ==
    /\ Rebuilds(w)
    /\ wpc[w] = "next_page"
    /\ wpage[w] < Len(wtask[w].pages)
    /\ IsBlank(wtask[w].pages[wpage[w] + 1].page_content)

\* C27: a step of rebuild_index_task changes the points of a page only if the
\* page is in its list with content that is not blank; a listed page with
\* blank content is counted as skipped without any call of the store, and
\* its points stay as they were
C27_RebuildFrame ==
    [][\A w \in Workers :
          /\ Rebuilds(w) =>
                \A item_id \in Items, page_id \in PageIds :
                    PagePoints(PointsOf(collections', item_id), page_id)
                        # PagePoints(PointsOf(collections, item_id), page_id)
                    => (item_id = wtask[w].item_id /\ ListedWithContent(w, page_id))
          /\ MeetsBlank(w) =>
                /\ wres'[w].skipped = wres[w].skipped + 1
                /\ collections' = collections
                /\ wpc'[w] = "next_page"]_vars

\* a rebuild has returned after skipping page 10, whose point and that of page
\* 11 are still there beside the new point of page 12
C27_Witness ==
    /\ wtask[1].kind = "rebuild"
    /\ wpc[1] = "returned"
    /\ wres[1].skipped = 1
    /\ wres[1].success = 1
    /\ \A page_id \in {10, 11, 12} :
          Len(PagePoints(PointsOf(collections, 1), page_id)) = 1

(***************************************************************************)
(* Properties of cleanup_unused_indexes beside record_access_time.         *)
(***************************************************************************)
\* cleanup_unused_indexes drops the collection of the project
DropsUnused(item_id) ==
    /\ apc = "unused_delete"
    /\ Exists(collections, item_id)
    /\ ~Exists(collections', item_id)

\* cleanup_unused_indexes removes the access-time record of the project
ForgetsUnused(item_id) ==
    /\ apc = "unused_forget"
    /\ AccessTime(item_id) # {}
    /\ AccessTime(item_id)' = {}

\* the access-time record of the project is older than the cutoff of the
\* clean-up that is running
RecordExpired(item_id) ==
    /\ AccessTime(item_id) # {}
    /\ \A t \in AccessTime(item_id) : t < ares.expire_timestamp

\* C28: cleanup_unused_indexes drops a collection only when the access-time
\* record of the project is, at that moment, older than the cutoff, and it
\* removes no record written after it has read the record, that is, no record
\* that is not older than the cutoff
C28_CleanupRace ==
    [][\A item_id \in Items :
          /\ DropsUnused(item_id) => RecordExpired(item_id)
          /\ ForgetsUnused(item_id) => RecordExpired(item_id)]_vars

(***************************************************************************)
(* Properties of _keyword_search.                                          *)
(***************************************************************************)
\* the scores of a list of results never rise
ScoresDescend(found) ==
    \A i \in 1..(Len(found) - 1) : found[i].score >= found[i + 1].score

\* what a search that has returned gave back: at most top_k of the matches
\* it collected, in descending order of score, none of them below a match
\* that was left out
ReturnedBest ==
    /\ Len(kret) <= kreq.top_k
    /\ ScoresDescend(kret)
    /\ \A i \in 1..Len(kret) : \E j \in 1..Len(kresults) : kret[i] = kresults[j]
    /\ \A i \in 1..Len(kret), j \in 1..Len(kresults) : kret[1].score >= kresults[j].score

\* a step in which the search, having read a page, goes on to the next
\* request
ScansOn == kpc = "scroll" /\ kpc' = "scroll" /\ krequests' = krequests + 1

\* C29: _keyword_search always terminates: a search that scrolls returns in
\* the end and issues at most 100 scroll requests, whatever cursors the
\* store hands out; it goes on to another request only when the page was not
\* empty, the cursor was not null and fewer than 10 * top_k matches are
\* collected; it returns at most top_k matches sorted by descending score.
C29_KeywordSearchTerminates ==
    /\ [](/\ krequests <= max_scroll_pages
          /\ Len(kresults) <= kreq.top_k * 10
          /\ kpc = "returned" => ReturnedBest)
    /\ [][ScansOn => /\ klast'.points # <<>>
                     /\ klast'.next_page_offset # None
                     /\ Len(kresults') < kreq.top_k * 10]_vars
    /\ (kpc = "scroll" ~> kpc = "returned")

\* a search has used all its 100 requests, the store handing out a cursor
\* every time, and returned the better of the matches it collected
C29_Witness ==
    /\ kpc = "returned"
    /\ krequests = max_scroll_pages
    /\ klast.next_page_offset # None
    /\ kreq.top_k = 2
    /\ Len(kresults) > 2
    /\ Len(kret) = 2
    /\ kresults[1].score < kret[1].score
    /\ kret[2].score < kret[1].score

=============================================================================
